---- MODULE Spec2Model ----
(***************************************************************************)
(* Page layout and assignment engine of the album designer                 *)
(* (src/album_gui.py, class AlbumWindow and its two worker threads).       *)
(*                                                                         *)
(* Conventions.  Python lists are TLA+ sequences: list index k is sequence *)
(* position k+1.  Python dicts are functions whose DOMAIN is the key set.  *)
(* A partition tree is the record [count, seed, locked]: build_full_tree   *)
(* is deterministic in (count, seed), its leaves carry the ids 0..count-1, *)
(* and locked says whether some internal node has its locked flag set.     *)
(***************************************************************************)
EXTENDS Integers, Sequences, FiniteSets, TLC

\* ------------------------------------------------------------- bounds
\* Number of supported image files in the folder that load_images reads.
NumImages == 2
\* Largest value the user gives the "Number of Pages" spin box.
MaxPages == 2
\* Largest total slot demand of a configuration the user asks for.
MaxTotalSlots == 4
\* Largest number of optimizer (resp. export) threads in flight at once.
MaxInflight == 2
\* Number of handlers a behaviour runs.
MaxOps == 5
\* Number of images of the folder in the selection specification.
SelImages == 3
\* Largest n of a snapshot file <folder-name>_snapshot_<n>.json of the folder.
MaxSnapshots == 2

\* ---------------------------------------------------- program constants
SpinMinimum == 1
DefaultSlots == 4
SeedBase == 42

\* ------------------------------------------------------------- helpers
Range(s) == {s[k] : k \in DOMAIN s}

Min(a, b) == IF a < b THEN a ELSE b

Max(a, b) == IF a > b THEN a ELSE b

RECURSIVE SumSeq(_)
SumSeq(s) == IF s = <<>> THEN 0 ELSE Head(s) + SumSeq(Tail(s))

\* dict[k] = v
DictSet(d, k, v) == [x \in (DOMAIN d) \cup {k} |-> IF x = k THEN v ELSE d[x]]

\* the dict without the keys in ks
DictDel(d, ks) == [x \in (DOMAIN d) \ ks |-> d[x]]

EmptyDict == [x \in {} |-> 0]

\* lst.index(v): position of the first occurrence (0-based)
ListIndex(lst, v) == (CHOOSE k \in 1..Len(lst) :
                        lst[k] = v /\ \A j \in 1..(k - 1) : lst[j] # v) - 1

\* sa.is_power_of_two
is_power_of_two(n) == n \in {1, 2, 4, 8, 16}

\* sa.largest_power_of_two_leq
largest_power_of_two_leq(n) ==
    CHOOSE p \in {1, 2, 4, 8, 16} : p <= n /\ \A q \in {1, 2, 4, 8, 16} : q <= n => q <= p

\* sa.build_full_tree(count, seed): the seed varies the splits of the internal
\* nodes only, so the tree of one leaf is the same for every seed.
build_full_tree(count, seed) ==
    [count |-> count, seed |-> IF count = 1 THEN 0 ELSE seed, locked |-> FALSE]

\* sa.leaf_ids(root)
leaf_ids(root) == 0..(root.count - 1)

\* ------------------------------------------- the slot specification text
\* Texts the user types into the "Slots per Page" line edit.
ConfigTexts == {"1", "2", "4", "3", "x", "1,2", "2,3"}

\* "," in config_str
HasComma(text) == text \in {"1,2", "2,3"}

\* [s.strip() for s in config_str.split(",") if s.strip()]
SplitItems(text) ==
    CASE text = "1,2" -> <<"1", "2">>
      [] text = "2,3" -> <<"2", "3">>
      [] OTHER -> <<text>>

\* int(s) succeeds
IsIntText(s) == s \in {"1", "2", "3", "4", "8"}

\* int(s)
IntOf(s) ==
    CASE s = "1" -> 1
      [] s = "2" -> 2
      [] s = "3" -> 3
      [] s = "4" -> 4
      [] s = "8" -> 8

\* str(n)
StrOf(n) ==
    CASE n = 1 -> "1"
      [] n = 2 -> "2"
      [] n = 4 -> "4"
      [] n = 8 -> "8"

\* QSpinBox.setValue clamps to the box's range (minimum 1)
SpinClamp(v) == Max(v, SpinMinimum)

FolderName == "album"

NoFolder == ""

\* f"{default_title} {i+1}"
DefaultTitle(n) == [text |-> FolderName, n |-> n]

\* ------------------------------------------------------------- state
VARIABLES
    total_images,          \* len(self.image_paths)
    current_folder,
    page_config_edit,      \* text of the slot specification line edit
    num_pages_spin,        \* value of the page count spin box
    page_titles,
    pages_roots,
    pages_perms,
    pages_locks,
    image_crop_states,
    forced_aspect_ratios,
    current_page_idx,
    optimize_btn,          \* enabled flag of the optimize trigger
    export_btn,            \* enabled flag of the export trigger
    pool_cb,               \* per image: the "Pool" check box of its list entry
    mandatory_cb,          \* per image: the "Mandatory" check box
    optim_workers,         \* OptimizationThread objects started and not finished
    export_workers,        \* number of ExportThread objects started and not finished
    export_runs,           \* for each of them: how far its run method has come
    mode_combo,            \* currentData() of the "Optimization Algorithm" combo box
    settings,              \* the display settings
    snapshots,             \* self.snapshots: the "data" of each entry and the
                           \* identity of its "page_titles" list
    disk,                  \* the snapshot files of the folder: for each n the
                           \* content of <folder-name>_snapshot_<n>.json
    snapshot_combo,        \* currentIndex() of the snapshot combo box, -1 when empty
    ops,                   \* number of handlers run since the initial state
    last                   \* the handler that ran last and the path it took

engine == <<total_images, current_folder, page_config_edit, num_pages_spin,
            page_titles, pages_roots, pages_perms, pages_locks,
            image_crop_states, forced_aspect_ratios, current_page_idx,
            optimize_btn, export_btn>>

flags == <<pool_cb, mandatory_cb>>

workers == <<optim_workers, export_workers, export_runs>>

extras == <<mode_combo, settings, snapshots, disk, snapshot_combo>>

vars == <<engine, flags, workers, extras, ops, last>>

\* aux: for a drop, 1 when line 1027 removed an older lock of the image; for a
\* handler that runs init_trees, the number of locks before it ran.
Did(op, path, aux) == [op |-> op, path |-> path, aux |-> aux]

\* Lines 288-292: the display settings of a new window; label_size_ratio is
\* kept in hundredths (0.5 is 50), as the spin box of line 451 shows it.
DefaultSettings ==
    [image_gap |-> 10, show_labels |-> TRUE, label_bold |-> FALSE,
     label_size_ratio |-> 50, show_page_numbers |-> FALSE]

\* No file of that name.
NoFile == [absent |-> TRUE]

\* A file that json.dump left unfinished: json.load raises on it.
PartialFile == [partial |-> TRUE]

FileExists(f) == "absent" \notin DOMAIN f

FileLoads(f) == FileExists(f) /\ "partial" \notin DOMAIN f

\* A folder without snapshot files.
NoFiles == [n \in 1..MaxSnapshots |-> NoFile]

TotalLocks(locks) == SumSeq([p \in 1..Len(locks) |-> Cardinality(DOMAIN locks[p])])

\* One more handler runs, within the budget of the exploration.
Tick == ops < MaxOps /\ ops' = ops + 1

Init ==
    /\ total_images = 0
    /\ current_folder = NoFolder
    /\ page_config_edit = ""
    /\ num_pages_spin = 1
    /\ page_titles = <<>>
    /\ pages_roots = <<>>
    /\ pages_perms = <<>>
    /\ pages_locks = <<>>
    /\ image_crop_states = EmptyDict
    /\ forced_aspect_ratios = {}
    /\ current_page_idx = 0
    /\ optimize_btn = FALSE
    /\ export_btn = FALSE
    /\ pool_cb = <<>>
    /\ mandatory_cb = <<>>
    /\ optim_workers = <<>>
    /\ export_workers = 0
    /\ export_runs = <<>>
    /\ mode_combo = "sa"
    /\ settings = DefaultSettings
    /\ snapshots = <<>>
    /\ disk = NoFiles
    /\ snapshot_combo = -1
    /\ ops = 0
    /\ last = Did("init", "ok", 0)

\* ----------------------------------------------------------- init_trees
\* ParseConfig without the power-of-two test of lines 782-785.
ParseConfig_no_power_check(text, spin, roots) ==
    LET comma == HasComma(text)
        items == SplitItems(text)
        parsed == IF comma THEN \A k \in DOMAIN items : IsIntText(items[k])
                  ELSE text = "" \/ IsIntText(text)
        counts == IF comma THEN [k \in DOMAIN items |-> IntOf(items[k])]
                  ELSE [k \in 1..spin |-> IF text = "" THEN DefaultSlots ELSE IntOf(text)]
        spin1 == IF comma /\ parsed THEN SpinClamp(Len(items)) ELSE spin
    IN  IF parsed
        THEN [ret |-> FALSE, path |-> "ok", spin |-> spin1,
              counts |-> IF counts = <<>> THEN <<DefaultSlots>> ELSE counts]
        ELSE IF roots = <<>>
        THEN [ret |-> FALSE, path |-> "fallback", spin |-> spin1,
              counts |-> <<DefaultSlots>>]
        ELSE [ret |-> TRUE, path |-> "config_error", spin |-> spin1, counts |-> <<>>]

\* Lines 761-796: parse the slot specification, validate powers of two, and
\* decide between the error return, the [4] fallback and the parsed counts.
\* ret: the handler returns at line 793; spin: the spin box value afterwards.
ParseConfig(text, spin, roots) ==
    LET comma == HasComma(text)
        items == SplitItems(text)
        parsed == IF comma THEN \A k \in DOMAIN items : IsIntText(items[k])
                  ELSE text = "" \/ IsIntText(text)
        counts == IF comma THEN [k \in DOMAIN items |-> IntOf(items[k])]
                  ELSE [k \in 1..spin |-> IF text = "" THEN DefaultSlots ELSE IntOf(text)]
        spin1 == IF comma /\ parsed THEN SpinClamp(Len(items)) ELSE spin
        valid == parsed /\ \A k \in DOMAIN counts : is_power_of_two(counts[k])
    IN  IF valid
        THEN [ret |-> FALSE, path |-> "ok", spin |-> spin1,
              counts |-> IF counts = <<>> THEN <<DefaultSlots>> ELSE counts]
        ELSE IF roots = <<>>
        THEN [ret |-> FALSE, path |-> "fallback", spin |-> spin1,
              counts |-> <<DefaultSlots>>]
        ELSE [ret |-> TRUE, path |-> "config_error", spin |-> spin1, counts |-> <<>>]

\* NewTitles giving every page its default title.
NewTitles_all_default(old_titles, num_pages) ==
    [i \in 1..num_pages |-> DefaultTitle(i)]

\* Lines 800-808: titles kept by index, defaults for added pages.
NewTitles(old_titles, num_pages) ==
    [i \in 1..num_pages |->
        IF i <= Len(old_titles) THEN old_titles[i] ELSE DefaultTitle(i)]

\* Line 822: one tree per page, seed 42 + i.
NewRoots(page_counts) ==
    [i \in 1..Len(page_counts) |-> build_full_tree(page_counts[i], SeedBase + (i - 1))]

\* random.shuffle(list(range(total_images))): every ordering
Shuffles(n) == {f \in [1..n -> 0..(n - 1)] : \A a, b \in 1..n : f[a] = f[b] => a = b}

\* NewPerms with every slice after the first starting one position early
\* (current_idx of line 853 advanced by count - 1).
NewPerms_overlapping(page_counts, shuffled, pads) ==
    LET full == shuffled \o pads
        start(i) == Max(0, SumSeq(SubSeq(page_counts, 1, i - 1)) - 1)
    IN  [i \in 1..Len(page_counts) |->
            SubSeq(full, start(i) + 1, start(i) + page_counts[i])]

\* Lines 832-853: contiguous slices of the shuffled pool; a page that runs out
\* of images is padded with random.choice(pool_indices), one draw per slot.
\* shuffled \o pads lists the draws in the order the loop consumes them.
NewPerms(page_counts, shuffled, pads) ==
    LET full == shuffled \o pads
        start(i) == SumSeq(SubSeq(page_counts, 1, i - 1))
    IN  [i \in 1..Len(page_counts) |->
            SubSeq(full, start(i) + 1, start(i) + page_counts[i])]

\* KeepLocks with "k > limit" for the test of line 865.
KeepLocks_off_by_one(locks, page_counts) ==
    IF Len(locks) # Len(page_counts)
    THEN [i \in 1..Len(page_counts) |-> [x \in {} |-> 0]]
    ELSE [i \in 1..Len(page_counts) |->
            [k \in {x \in DOMAIN locks[i] : x <= page_counts[i]} |-> locks[i][k]]]

\* Lines 859-867: all locks are reset when the number of pages changed,
\* else the locks whose leaf id is out of the page's new bounds are removed.
KeepLocks(locks, page_counts) ==
    IF Len(locks) # Len(page_counts)
    THEN [i \in 1..Len(page_counts) |-> EmptyDict]
    ELSE [i \in 1..Len(page_counts) |->
            DictDel(locks[i], {k \in DOMAIN locks[i] : k >= page_counts[i]})]

\* An OptimizationThread keeps the list objects it was given (lines 88, 94):
\* roots and locks are what it reads through them, live_roots and live_locks
\* say whether the list is still the one self.pages_roots / self.pages_locks
\* names.  Rebinding the attribute to a new list leaves the thread the old one.
Detach(ws, roots_rebound, locks_rebound) ==
    [k \in 1..Len(ws) |->
        [ws[k] EXCEPT !.live_roots = @ /\ ~roots_rebound,
                      !.live_locks = @ /\ ~locks_rebound]]

\* A change made in place to the lock dicts shows through every live reference.
SeeLocks(ws, locks) ==
    [k \in 1..Len(ws) |-> IF ws[k].live_locks THEN [ws[k] EXCEPT !.locks = locks]
                           ELSE ws[k]]

\* A change made in place to the tree list shows through every live reference.
SeeRoots(ws, roots) ==
    [k \in 1..Len(ws) |-> IF ws[k].live_roots THEN [ws[k] EXCEPT !.roots = roots]
                           ELSE ws[k]]

\* take_snapshot stores self.page_titles itself in the snapshot (line 559) and
\* restore_snapshot binds self.page_titles to the list of the snapshot (line
\* 635).  Entries of one group hold the same list object (the group is the
\* position of the first of them); live says that this object is the one
\* self.page_titles names.  Rebinding self.page_titles to a new list:
Unalias(snaps) == [i \in 1..Len(snaps) |-> [snaps[i] EXCEPT !.live = FALSE]]

\* A change made in place to self.page_titles shows in every live entry.
SeeTitles(snaps, titles) ==
    [i \in 1..Len(snaps) |->
        IF snaps[i].live THEN [snaps[i] EXCEPT !.data.page_titles = titles]
        ELSE snaps[i]]

\* init_trees (lines 755-874) as a function of the image count, the line
\* edit, the spin box, the titles, trees, permutations and locks, the threads
\* in flight, the page shown and the two buttons: the values it can leave,
\* one per outcome of random.shuffle and random.choice.
InitTreesOutcomes(n, text, spin, titles, roots, perms, locks, ws, page, opt, exp) ==
    IF n = 0
    THEN {[path |-> "no_images", spin |-> spin, titles |-> titles, roots |-> roots,
           perms |-> perms, locks |-> locks, ws |-> ws, page |-> page,
           optimize |-> FALSE, export |-> exp, rebound |-> FALSE]}
    ELSE LET cfg == ParseConfig(text, spin, roots) IN
         IF cfg.ret
         THEN {[path |-> cfg.path, spin |-> cfg.spin, titles |-> titles,
                roots |-> roots, perms |-> perms, locks |-> locks, ws |-> ws,
                page |-> page, optimize |-> opt, export |-> exp,
                rebound |-> FALSE]}
         ELSE LET page_counts == cfg.counts
                  total == SumSeq(page_counts)
              IN  IF total > MaxTotalSlots THEN {}
                  ELSE {[path |-> cfg.path, spin |-> cfg.spin,
                         titles |-> NewTitles(titles, Len(page_counts)),
                         roots |-> NewRoots(page_counts),
                         perms |-> NewPerms(page_counts, shuffled, pads),
                         locks |-> KeepLocks(locks, page_counts),
                         ws |-> SeeLocks(Detach(ws, TRUE, Len(locks) # Len(page_counts)),
                                         KeepLocks(locks, page_counts)),
                         page |-> 0, optimize |-> TRUE, export |-> TRUE,
                         rebound |-> TRUE] :
                            shuffled \in Shuffles(n),
                            pads \in [1..Max(total - n, 0) -> 0..(n - 1)]}

\* init_trees run by a handler op on the given values; snaps is the snapshot
\* list when it starts.
init_trees(op, n, text, spin, titles, roots, perms, locks, ws, snaps) ==
    \E r \in InitTreesOutcomes(n, text, spin, titles, roots, perms, locks, ws,
                               current_page_idx, optimize_btn, export_btn) :
        /\ num_pages_spin' = r.spin
        /\ page_titles' = r.titles
        /\ pages_roots' = r.roots
        /\ pages_perms' = r.perms
        /\ pages_locks' = r.locks
        /\ optim_workers' = r.ws
        /\ current_page_idx' = r.page
        /\ optimize_btn' = r.optimize
        /\ export_btn' = r.export
        /\ snapshots' = (IF r.rebound THEN Unalias(snaps) ELSE snaps)
        /\ last' = Did(op, r.path, TotalLocks(pages_locks))

\* on_page_config_changed (lines 752-753): the user finished editing the text.
on_page_config_changed(text) ==
    /\ Tick
    /\ page_config_edit' = text
    /\ init_trees("on_page_config_changed", total_images, text, num_pages_spin,
                  page_titles, pages_roots, pages_perms, pages_locks, optim_workers,
                  snapshots)
    /\ UNCHANGED <<total_images, current_folder, image_crop_states,
                   forced_aspect_ratios, flags, export_workers, export_runs, mode_combo,
                   settings, disk, snapshot_combo>>

\* num_pages_spin.valueChanged -> init_trees (line 388): the user changed the value.
on_num_pages_changed(v) ==
    /\ Tick
    /\ v # num_pages_spin
    /\ init_trees("on_num_pages_changed", total_images, page_config_edit, v,
                  page_titles, pages_roots, pages_perms, pages_locks, optim_workers,
                  snapshots)
    /\ UNCHANGED <<total_images, current_folder, page_config_edit,
                   image_crop_states, forced_aspect_ratios, flags, export_workers, export_runs,
                   mode_combo, settings, disk, snapshot_combo>>

\* reset_layout without the loop of lines 1245-1246.
reset_layout_keeps_locks ==
    /\ Tick
    /\ init_trees("reset_layout", total_images, page_config_edit, num_pages_spin,
                  page_titles, pages_roots, pages_perms, pages_locks,
                  optim_workers, snapshots)
    /\ UNCHANGED <<total_images, current_folder, page_config_edit,
                   image_crop_states, forced_aspect_ratios, flags, export_workers, export_runs,
                   mode_combo, settings, disk, snapshot_combo>>

\* reset_layout (lines 1244-1247): the lock dicts are cleared in place.
reset_layout ==
    LET cleared == [i \in 1..Len(pages_locks) |-> EmptyDict] IN
    /\ Tick
    /\ init_trees("reset_layout", total_images, page_config_edit, num_pages_spin,
                  page_titles, pages_roots, pages_perms, cleared,
                  SeeLocks(optim_workers, cleared), snapshots)
    /\ UNCHANGED <<total_images, current_folder, page_config_edit,
                   image_crop_states, forced_aspect_ratios, flags, export_workers, export_runs,
                   mode_combo, settings, disk, snapshot_combo>>

\* ---------------------------------------------------------- load_images
\* Lines 678-690: one entry per snapshot file of the folder that json.load
\* reads, in the sorted order of the names, its data as json.load returns it.
LoadSnapshots(files) ==
    LET names == SelectSeq([n \in 1..MaxSnapshots |-> n], LAMBDA n : FileLoads(files[n]))
    IN  [i \in 1..Len(names) |->
            [path |-> names[i], data |-> files[names[i]], from_file |-> TRUE,
             group |-> i, live |-> FALSE]]

\* Lines 692-697: one page with the smallest power of two >= the image count.
DefaultConfigText(n) ==
    LET p == largest_power_of_two_leq(n)
    IN  StrOf(IF p < n THEN 2 * p ELSE p)

\* load_images (lines 649-713) on a folder with n supported files.  With no
\* file the handler stops at line 666: self.slot_combo is not an attribute of
\* the window, so the statements after it do not run.  Every list entry is
\* created with Pool checked and Mandatory unchecked (lines 66-71).
load_images(n) ==
    /\ Tick
    /\ total_images' = n
    /\ current_folder' = FolderName
    /\ pool_cb' = [i \in 1..n |-> TRUE]
    /\ mandatory_cb' = [i \in 1..n |-> FALSE]
    /\ UNCHANGED <<image_crop_states, forced_aspect_ratios, export_workers, export_runs,
                   mode_combo, settings, disk>>
    /\ IF n = 0
       THEN /\ page_titles' = <<>>
            /\ pages_roots' = <<>>
            /\ pages_perms' = <<>>
            /\ pages_locks' = <<>>
            /\ optim_workers' = Detach(optim_workers, TRUE, TRUE)
            /\ snapshots' = Unalias(snapshots)
            /\ UNCHANGED <<page_config_edit, num_pages_spin, current_page_idx,
                           optimize_btn, export_btn, snapshot_combo>>
            /\ last' = Did("load_images", "no_files", TotalLocks(pages_locks))
       ELSE /\ page_config_edit' = DefaultConfigText(n)
            /\ snapshot_combo' = (IF LoadSnapshots(disk) = <<>> THEN -1 ELSE 0)
            /\ init_trees("load_images", n, DefaultConfigText(n), num_pages_spin,
                          <<>>, <<>>, <<>>, <<>>, Detach(optim_workers, TRUE, TRUE),
                          LoadSnapshots(disk))

\* ---------------------------------------------------------- handle_drop
\* DropPath with "img_idx > len(image_paths)" for the test of line 1021.
DropPath_image_off_by_one(page_idx, leaf_id, img_idx) ==
    IF pages_roots = <<>> \/ page_idx >= Len(pages_roots) THEN "return_page"
    ELSE IF page_idx >= Len(pages_perms) THEN "index_error"
    ELSE IF pages_perms[page_idx + 1] = <<>> THEN "return_page"
    ELSE IF leaf_id < 0 \/ leaf_id >= Len(pages_perms[page_idx + 1]) THEN "return_leaf"
    ELSE IF img_idx < 0 \/ img_idx > total_images THEN "return_image"
    ELSE "lock"

\* Lines 1015-1022: the early returns.  The test of line 1015 reads
\* pages_perms[page_idx] after comparing page_idx with len(pages_roots) only.
DropPath(page_idx, leaf_id, img_idx) ==
    IF pages_roots = <<>> \/ page_idx >= Len(pages_roots) THEN "return_page"
    ELSE IF page_idx >= Len(pages_perms) THEN "index_error"
    ELSE IF pages_perms[page_idx + 1] = <<>> THEN "return_page"
    ELSE IF leaf_id < 0 \/ leaf_id >= Len(pages_perms[page_idx + 1]) THEN "return_leaf"
    ELSE IF img_idx < 0 \/ img_idx >= total_images THEN "return_image"
    ELSE "lock"

\* SetLock without the loop of lines 1025-1027.
SetLock_keeps_old(locked, leaf_id, img_idx) == DictSet(locked, leaf_id, img_idx)

\* Lines 1025-1029: drop the image's lock on another leaf of this page, then lock.
SetLock(locked, leaf_id, img_idx) ==
    DictSet(DictDel(locked, {k \in DOMAIN locked : k # leaf_id /\ locked[k] = img_idx}),
            leaf_id, img_idx)

\* Line 1026: the image is locked to another leaf of the page.
MovesLock(locked, leaf_id, img_idx) ==
    \E k \in DOMAIN locked : k # leaf_id /\ locked[k] = img_idx

\* PlaceImage without the swap: the target leaf is overwritten in every case.
PlaceImage_overwrites(perm, leaf_id, img_idx) == [perm EXCEPT ![leaf_id + 1] = img_idx]

\* Lines 1031-1039: swap with the first leaf holding the image, else overwrite.
PlaceImage(perm, leaf_id, img_idx) ==
    IF img_idx \in Range(perm)
    THEN LET current_leaf_of_img == ListIndex(perm, img_idx)
         IN  IF current_leaf_of_img # leaf_id
             THEN [perm EXCEPT ![leaf_id + 1] = perm[current_leaf_of_img + 1],
                               ![current_leaf_of_img + 1] = perm[leaf_id + 1]]
             ELSE perm
    ELSE [perm EXCEPT ![leaf_id + 1] = img_idx]

PlacePath(perm, leaf_id, img_idx) ==
    IF img_idx \in Range(perm)
    THEN IF ListIndex(perm, img_idx) # leaf_id THEN "swap" ELSE "in_place"
    ELSE "overwrite"

\* handle_drop taking the image's locks away on every other page as well.
handle_drop_unique_everywhere(page_idx, leaf_id, img_idx) ==
    LET path == DropPath(page_idx, leaf_id, img_idx) IN
    /\ Tick
    /\ UNCHANGED <<flags, export_workers, export_runs, extras>>
    /\ IF path # "lock"
       THEN /\ UNCHANGED <<engine, optim_workers>>
            /\ last' = Did("handle_drop", path, 0)
       ELSE /\ pages_locks' = [q \in 1..Len(pages_locks) |->
                                  IF q = page_idx + 1
                                  THEN SetLock(pages_locks[q], leaf_id, img_idx)
                                  ELSE DictDel(pages_locks[q],
                                               {k \in DOMAIN pages_locks[q] :
                                                   pages_locks[q][k] = img_idx})]
            /\ optim_workers' = SeeLocks(optim_workers, pages_locks')
            /\ pages_perms' = [pages_perms EXCEPT ![page_idx + 1] =
                                  PlaceImage(pages_perms[page_idx + 1], leaf_id, img_idx)]
            /\ image_crop_states' = DictSet(image_crop_states, img_idx, FALSE)
            /\ forced_aspect_ratios' = forced_aspect_ratios \cup {img_idx}
            /\ UNCHANGED <<total_images, current_folder, page_config_edit,
                           num_pages_spin, page_titles, pages_roots,
                           current_page_idx, optimize_btn, export_btn>>
            /\ last' = Did("handle_drop",
                           PlacePath(pages_perms[page_idx + 1], leaf_id, img_idx),
                           IF MovesLock(pages_locks[page_idx + 1], leaf_id, img_idx)
                           THEN 1 ELSE 0)

\* handle_drop (lines 1012-1046)
handle_drop(page_idx, leaf_id, img_idx) ==
    LET path == DropPath(page_idx, leaf_id, img_idx) IN
    /\ Tick
    /\ UNCHANGED <<flags, export_workers, export_runs, extras>>
    /\ IF path # "lock"
       THEN /\ UNCHANGED <<engine, optim_workers>>
            /\ last' = Did("handle_drop", path, 0)
       ELSE /\ pages_locks' = [pages_locks EXCEPT ![page_idx + 1] =
                                  SetLock(pages_locks[page_idx + 1], leaf_id, img_idx)]
            /\ optim_workers' = SeeLocks(optim_workers, pages_locks')
            /\ pages_perms' = [pages_perms EXCEPT ![page_idx + 1] =
                                  PlaceImage(pages_perms[page_idx + 1], leaf_id, img_idx)]
            /\ image_crop_states' = DictSet(image_crop_states, img_idx, FALSE)
            /\ forced_aspect_ratios' = forced_aspect_ratios \cup {img_idx}
            /\ UNCHANGED <<total_images, current_folder, page_config_edit,
                           num_pages_spin, page_titles, pages_roots,
                           current_page_idx, optimize_btn, export_btn>>
            /\ last' = Did("handle_drop",
                           PlacePath(pages_perms[page_idx + 1], leaf_id, img_idx),
                           IF MovesLock(pages_locks[page_idx + 1], leaf_id, img_idx)
                           THEN 1 ELSE 0)

\* ------------------------------------------------------ the image list
\* on_pool_toggled without the setChecked(False) of line 78.
on_pool_toggled_keeps_mandatory(i) ==
    /\ Tick
    /\ i < total_images
    /\ pool_cb' = [pool_cb EXCEPT ![i + 1] = ~pool_cb[i + 1]]
    /\ UNCHANGED <<engine, mandatory_cb, workers, extras>>
    /\ last' = Did("on_pool_toggled", "ok", 0)

\* ImageListEntry.on_pool_toggled (lines 75-78), the user clicking "Pool".
on_pool_toggled(i) ==
    /\ Tick
    /\ i < total_images
    /\ pool_cb' = [pool_cb EXCEPT ![i + 1] = ~pool_cb[i + 1]]
    /\ mandatory_cb' = IF pool_cb[i + 1]
                       THEN [mandatory_cb EXCEPT ![i + 1] = FALSE]
                       ELSE mandatory_cb
    /\ UNCHANGED <<engine, workers, extras>>
    /\ last' = Did("on_pool_toggled", "ok", 0)

\* The user clicking "Mandatory", which is enabled while "Pool" is checked
\* (line 76).
on_mandatory_toggled(i) ==
    /\ Tick
    /\ i < total_images
    /\ pool_cb[i + 1]
    /\ mandatory_cb' = [mandatory_cb EXCEPT ![i + 1] = ~mandatory_cb[i + 1]]
    /\ UNCHANGED <<engine, pool_cb, workers, extras>>
    /\ last' = Did("on_mandatory_toggled", "ok", 0)

\* select_none_images (lines 1314-1319): every "Pool" box is unchecked, and
\* each box that was checked runs on_pool_toggled.
select_none_images ==
    /\ Tick
    /\ total_images > 0
    /\ pool_cb' = [i \in 1..total_images |-> FALSE]
    /\ mandatory_cb' = [i \in 1..total_images |->
                           IF pool_cb[i] THEN FALSE ELSE mandatory_cb[i]]
    /\ UNCHANGED <<engine, workers, extras>>
    /\ last' = Did("select_none_images", "ok", 0)

\* select_all_images (lines 1307-1312): every "Pool" box is checked; a box that
\* was unchecked runs on_pool_toggled(True), which enables its "Mandatory" box
\* and leaves it unchecked.
select_all_images ==
    /\ Tick
    /\ total_images > 0
    /\ pool_cb' = [i \in 1..total_images |-> TRUE]
    /\ UNCHANGED <<engine, mandatory_cb, workers, extras>>
    /\ last' = Did("select_all_images", "ok", 0)

\* ---------------------------------------------------- start_optimization
\* random.randint(0, 1000000): the values drawn in the model
RandSeeds == {0, SeedBase}

\* list(range(n)): the list entries in pool order
PoolOrder(n) == [k \in 1..n |-> k - 1]

\* list(a set of small ints): CPython iterates them in increasing order
RECURSIVE SortedList(_)
SortedList(S) ==
    IF S = {} THEN <<>>
    ELSE LET m == CHOOSE x \in S : \A y \in S : x <= y
         IN  <<m>> \o SortedList(S \ {m})

\* PageCounts reading half of every tree's leaves.
PageCounts_halved(roots) ==
    [i \in 1..Len(roots) |-> Max(1, Cardinality(leaf_ids(roots[i])) \div 2)]

\* Lines 1092-1094
PageCounts(roots) == [i \in 1..Len(roots) |-> Cardinality(leaf_ids(roots[i]))]

\* Lines 1097-1101: some internal node of some tree has its locked flag set.
HasLocks(roots) == \E i \in 1..Len(roots) : roots[i].locked

\* Lines 1108-1111
LockedIndices(locks) == UNION {Range(locks[p]) : p \in 1..Len(locks)}

\* Lines 1114, 1122-1123
MandatoryIndices(locks, mandatory) ==
    LockedIndices(locks) \cup {i \in 0..(Len(mandatory) - 1) : mandatory[i + 1]}

\* Lines 1115, 1124-1125
OptionalIndices(locks, pool, mandatory) ==
    SelectSeq(PoolOrder(Len(pool)),
              LAMBDA i : ~mandatory[i + 1] /\ pool[i + 1] /\ i \notin LockedIndices(locks))

\* Validate without the supply check of line 1133.
Validate_no_supply_check(n_mandatory, n_optional, total_needed) ==
    IF n_mandatory > total_needed THEN "too_many_mandatory" ELSE "ok"

\* Lines 1128-1136: the validation; "ok" when both checks pass.
Validate(n_mandatory, n_optional, total_needed) ==
    IF n_mandatory > total_needed THEN "too_many_mandatory"
    ELSE IF n_mandatory + n_optional < total_needed THEN "not_enough_images"
    ELSE "ok"

\* ActiveIndices taking one optional image more than line 1144.
ActiveIndices_one_more(mandatory_indices, optional_indices, total_needed) ==
    LET slots_remaining == total_needed - Cardinality(mandatory_indices)
    IN  SortedList(mandatory_indices) \o
        SubSeq(optional_indices, 1, Min(slots_remaining + 1, Len(optional_indices)))

\* Lines 1140-1144
ActiveIndices(mandatory_indices, optional_indices, total_needed) ==
    LET slots_remaining == total_needed - Cardinality(mandatory_indices)
    IN  SortedList(mandatory_indices) \o
        (IF slots_remaining > 0
         THEN SubSeq(optional_indices, 1, Min(slots_remaining, Len(optional_indices)))
         ELSE <<>>)

\* LockedChunk that seeds the chunk with the leaf ids instead of the images
\* locked on them (line 1154).
LockedChunk_appends_leaf(locked, active_indices) ==
    SelectSeq(SortedList(DOMAIN locked), LAMBDA l : locked[l] \in Range(active_indices))

\* Lines 1151-1155: the page's own locked images that are active.
LockedChunk(locked, active_indices) ==
    LET leaves == SelectSeq(SortedList(DOMAIN locked),
                            LAMBDA l : locked[l] \in Range(active_indices))
    IN  [k \in 1..Len(leaves) |-> locked[leaves[k]]]

\* FillChunks stopping one image short of the page's slot count (line 1162).
RECURSIVE FillChunks_one_short(_, _, _, _)
FillChunks_one_short(p, chunks, page_counts, free_active) ==
    IF p > Len(chunks) THEN <<>>
    ELSE LET take == Max(0, Min(page_counts[p] - Len(chunks[p]) - 1, Len(free_active)))
         IN  <<chunks[p] \o SubSeq(free_active, 1, take)>> \o
             FillChunks_one_short(p + 1, chunks, page_counts,
                                  SubSeq(free_active, take + 1, Len(free_active)))

\* Lines 1159-1163: pages p..last take from free_active, in order, up to their
\* slot count.
RECURSIVE FillChunks(_, _, _, _)
FillChunks(p, chunks, page_counts, free_active) ==
    IF p > Len(chunks) THEN <<>>
    ELSE LET take == Max(0, Min(page_counts[p] - Len(chunks[p]), Len(free_active)))
         IN  <<chunks[p] \o SubSeq(free_active, 1, take)>> \o
             FillChunks(p + 1, chunks, page_counts,
                        SubSeq(free_active, take + 1, Len(free_active)))

\* Lines 1147-1163
BuildChunks(locks, page_counts, active_indices) ==
    LET seeded == [p \in 1..Len(page_counts) |-> LockedChunk(locks[p], active_indices)]
        assigned == UNION {Range(seeded[p]) : p \in 1..Len(seeded)}
        free_active == SelectSeq(active_indices, LAMBDA i : i \notin assigned)
    IN  FillChunks(1, seeded, page_counts, free_active)

\* SwapPool as optional_indices[slots_remaining + 1:] for line 1166.
SwapPool_skips_one(mandatory_indices, optional_indices, total_needed) ==
    LET slots_remaining == total_needed - Cardinality(mandatory_indices)
    IN  SubSeq(optional_indices, slots_remaining + 2, Len(optional_indices))

\* Line 1166: optional_indices[slots_remaining:]
SwapPool(mandatory_indices, optional_indices, total_needed) ==
    LET slots_remaining == total_needed - Cardinality(mandatory_indices)
        from == IF slots_remaining >= 0 THEN slots_remaining
                ELSE Max(0, Len(optional_indices) + slots_remaining)
    IN  SubSeq(optional_indices, from + 1, Len(optional_indices))

\* start_optimization (lines 1087-1185), the user clicking the optimize trigger.
start_optimization ==
    /\ Tick
    /\ optimize_btn
    /\ UNCHANGED <<total_images, current_folder, page_config_edit, num_pages_spin,
                   page_titles, pages_perms, pages_locks, image_crop_states,
                   forced_aspect_ratios, current_page_idx, export_btn, flags,
                   export_workers, export_runs, extras>>
    /\ IF pages_roots = <<>> \/ pages_perms = <<>>
       THEN /\ UNCHANGED <<pages_roots, optimize_btn, optim_workers>>
            /\ last' = Did("start_optimization", "return_empty", 0)
       ELSE LET page_counts == PageCounts(pages_roots)
                total_needed == SumSeq(page_counts)
                mandatory_indices == MandatoryIndices(pages_locks, mandatory_cb)
                optional_indices == OptionalIndices(pages_locks, pool_cb, mandatory_cb)
                verdict == Validate(Cardinality(mandatory_indices),
                                    Len(optional_indices), total_needed)
                active_indices == ActiveIndices(mandatory_indices, optional_indices,
                                                total_needed)
            IN  /\ IF HasLocks(pages_roots)
                   THEN pages_roots' = pages_roots
                   ELSE \E seeds \in [1..Len(page_counts) -> RandSeeds] :
                           pages_roots' = [i \in 1..Len(page_counts) |->
                                              build_full_tree(page_counts[i], seeds[i])]
                /\ IF verdict # "ok"
                   THEN /\ optimize_btn' = optimize_btn
                        /\ optim_workers' =
                              Detach(optim_workers, ~HasLocks(pages_roots), FALSE)
                   ELSE /\ Len(optim_workers) < MaxInflight
                        /\ optimize_btn' = FALSE
                        /\ optim_workers' = Append(
                              Detach(optim_workers, ~HasLocks(pages_roots), FALSE),
                              [roots |-> pages_roots',
                               live_roots |-> TRUE,
                               chunks |-> BuildChunks(pages_locks, page_counts,
                                                      active_indices),
                               swap_pool |-> SwapPool(mandatory_indices,
                                                      optional_indices, total_needed),
                               locks |-> pages_locks,
                               live_locks |-> TRUE,
                               mode |-> mode_combo,
                               wrote |-> FALSE,
                               results |-> <<>>])
                /\ last' = Did("start_optimization", verdict, 0)

\* ------------------------------------------------------ the optimizer
\* What sa.anneal_global / optimize_es / optimize_linear_partition may return
\* for a request: one permutation per tree it was given, as long as the tree
\* has leaves, over the images of the chunks and the swap pool, with every
\* locked leaf holding its locked image.
OptimizerResults(w) ==
    LET cand == UNION {Range(w.chunks[p]) : p \in 1..Len(w.chunks)}
                \cup Range(w.swap_pool)
        counts == PageCounts(w.roots)
        start(i) == SumSeq(SubSeq(counts, 1, i - 1))
    IN  {[i \in 1..Len(counts) |->
            [l \in 1..counts[i] |->
                IF (l - 1) \in DOMAIN w.locks[i]
                THEN w.locks[i][l - 1]
                ELSE f[start(i) + l]]] :
         f \in [1..SumSeq(counts) -> cand]}

\* The list without its k-th element
RemoveAt(lst, k) == SubSeq(lst, 1, k - 1) \o SubSeq(lst, k + 1, Len(lst))

\* The trees sa.optimize_linear_partition may return for a request: for each
\* tree it was given, some tree with as many leaves.
LinearRoots(w) ==
    {[i \in 1..Len(w.roots) |-> build_full_tree(w.roots[i].count, seeds[i])] :
        seeds \in [1..Len(w.roots) -> RandSeeds]}

\* OptimizationThread.run in "linear" mode, lines 117-134: the call returns and
\* the thread stores the new trees into the list it was given, element by
\* element.  The signal of line 151 is delivered later, by on_optim_finished.
optim_writes_roots(k) ==
    /\ Tick
    /\ k \in 1..Len(optim_workers)
    /\ optim_workers[k].mode = "linear"
    /\ ~optim_workers[k].wrote
    /\ \E new_roots \in LinearRoots(optim_workers[k]) :
       \E results \in OptimizerResults(optim_workers[k]) :
          LET w == [optim_workers[k] EXCEPT !.roots = new_roots, !.wrote = TRUE,
                                            !.results = results]
              ws == [optim_workers EXCEPT ![k] = w]
          IN  IF w.live_roots
              THEN /\ pages_roots' = new_roots
                   /\ optim_workers' = SeeRoots(ws, new_roots)
              ELSE /\ pages_roots' = pages_roots
                   /\ optim_workers' = ws
    /\ UNCHANGED <<total_images, current_folder, page_config_edit, num_pages_spin,
                   page_titles, pages_perms, pages_locks, image_crop_states,
                   forced_aspect_ratios, current_page_idx, optimize_btn, export_btn,
                   flags, export_workers, export_runs, extras>>
    /\ last' = Did("optim_writes_roots", "ok", 0)

\* OptimizationThread.run, lines 100-151: the call into sa raises.  run has no
\* handler, so the thread ends and line 151 never emits finished_optim.
optim_raises(k) ==
    /\ Tick
    /\ k \in 1..Len(optim_workers)
    /\ ~optim_workers[k].wrote
    /\ optim_workers' = RemoveAt(optim_workers, k)
    /\ UNCHANGED <<engine, flags, export_workers, export_runs, extras>>
    /\ last' = Did("optim_raised", "ok", 0)

\* The user picks another entry of the "Optimization Algorithm" combo box
\* (lines 416-419).
on_mode_changed(m) ==
    /\ Tick
    /\ m # mode_combo
    /\ mode_combo' = m
    /\ UNCHANGED <<engine, flags, workers, settings, snapshots, disk, snapshot_combo>>
    /\ last' = Did("on_mode_changed", "ok", 0)

\* draw_layout (lines 876-884) in single view reads pages_perms and
\* pages_locks at current_page_idx whenever that page has a tree.
DrawLayoutRaises(roots, perms, locks, idx) ==
    /\ roots # <<>>
    /\ idx < Len(roots)
    /\ (idx >= Len(perms) \/ idx >= Len(locks))

\* on_optim_finished (lines 1187-1193), run for the k-th thread in flight.
on_optim_finished(k) ==
    /\ Tick
    /\ k \in 1..Len(optim_workers)
    /\ optim_workers[k].mode = "linear" => optim_workers[k].wrote
    /\ \E results \in (IF optim_workers[k].mode = "linear"
                        THEN {optim_workers[k].results}
                        ELSE OptimizerResults(optim_workers[k])) :
          /\ pages_perms' = results
          /\ IF DrawLayoutRaises(pages_roots, results, pages_locks, current_page_idx)
             THEN /\ UNCHANGED <<optimize_btn, export_btn>>
                  /\ last' = Did("on_optim_finished", "draw_raised", 0)
             ELSE /\ optimize_btn' = TRUE
                  /\ export_btn' = TRUE
                  /\ last' = Did("on_optim_finished", "ok", 0)
    /\ optim_workers' = RemoveAt(optim_workers, k)
    /\ UNCHANGED <<total_images, current_folder, page_config_edit, num_pages_spin,
                   page_titles, pages_roots, pages_locks, image_crop_states,
                   forced_aspect_ratios, current_page_idx, flags, export_workers, export_runs,
                   extras>>

\* ------------------------------------------------------------- export
\* The ExportThread export_pdf_dialog creates (lines 160-174, 1229-1233): it
\* keeps the window's list objects; total is len(self.pages_roots), renders
\* tells for each pair of zip(self.pages_roots, self.pages_perms) whether line
\* 180 lets it through, i is the number of pairs the loop has passed and
\* reports the (completed, total) pairs emitted so far.
NewExportRun(roots, perms) ==
    [total |-> Len(roots),
     renders |-> [p \in 1..Min(Len(roots), Len(perms)) |-> perms[p] # <<>>],
     i |-> 0,
     reports |-> <<>>]

\* export_pdf_dialog (lines 1211-1236), the user clicking the export trigger.
export_pdf_dialog ==
    /\ Tick
    /\ export_btn
    /\ IF current_folder = NoFolder
       THEN /\ UNCHANGED <<engine, workers>>
            /\ last' = Did("export_pdf_dialog", "return_no_folder", 0)
       ELSE /\ export_workers < MaxInflight
            /\ export_btn' = FALSE
            /\ optimize_btn' = FALSE
            /\ export_workers' = export_workers + 1
            /\ export_runs' = Append(export_runs, NewExportRun(pages_roots, pages_perms))
            /\ UNCHANGED <<total_images, current_folder, page_config_edit,
                           num_pages_spin, page_titles, pages_roots, pages_perms,
                           pages_locks, image_crop_states, forced_aspect_ratios,
                           current_page_idx, optim_workers>>
            /\ last' = Did("export_pdf_dialog", "dispatched", 0)
    /\ UNCHANGED <<flags, extras>>

\* ProgressPair counting the pages still to render.
ProgressPair_counts_down(i, total) == <<total - i, total>>

\* Line 202: self.progress.emit(i + 1, total)
ProgressPair(i, total) == <<i + 1, total>>

\* One pass of the loop of ExportThread.run (lines 179-202) in thread k: the
\* page is skipped (line 181) or rendered and reported (lines 184-202).
export_renders_page(k) ==
    /\ Tick
    /\ k <= Len(export_runs)
    /\ export_runs[k].i < Len(export_runs[k].renders)
    /\ export_runs' =
          [export_runs EXCEPT ![k] =
              [@ EXCEPT !.i = @ + 1,
                        !.reports = IF export_runs[k].renders[export_runs[k].i + 1]
                                    THEN Append(@, ProgressPair(export_runs[k].i,
                                                                export_runs[k].total))
                                    ELSE @]]
    /\ UNCHANGED <<engine, flags, optim_workers, export_workers, extras>>
    /\ last' = Did("export_renders_page", "ok", k)

\* on_export_finished (lines 1238-1242), for one export thread in flight: its
\* run ended, after the last page or with an exception (lines 204-213).
on_export_finished ==
    /\ Tick
    /\ export_workers > 0
    /\ export_workers' = export_workers - 1
    /\ \E k \in 1..Len(export_runs) : export_runs' = RemoveAt(export_runs, k)
    /\ export_btn' = TRUE
    /\ optimize_btn' = TRUE
    /\ UNCHANGED <<total_images, current_folder, page_config_edit, num_pages_spin,
                   page_titles, pages_roots, pages_perms, pages_locks,
                   image_crop_states, forced_aspect_ratios, current_page_idx,
                   optim_workers, flags, extras>>
    /\ last' = Did("on_export_finished", "ok", 0)

\* ------------------------------------------------------- specification
\* Arguments of a drop: every in-range triple, and one value past each end of
\* one range at a time.
DropInputs ==
    ((0..(MaxPages - 1)) \X (0..(MaxTotalSlots - 1)) \X (0..(NumImages - 1)))
    \cup {<<MaxPages, 0, 0>>, <<0, -1, 0>>, <<0, MaxTotalSlots, 0>>,
          <<0, 0, -1>>, <<0, 0, NumImages>>}

Next ==
    \/ \E n \in {0, NumImages} : load_images(n)
    \/ \E text \in ConfigTexts : on_page_config_changed(text)
    \/ \E v \in 1..MaxPages : on_num_pages_changed(v)
    \/ \E d \in DropInputs : handle_drop(d[1], d[2], d[3])
    \/ reset_layout
    \/ \E i \in 0..(NumImages - 1) : on_pool_toggled(i)
    \/ \E i \in 0..(NumImages - 1) : on_mandatory_toggled(i)
    \/ select_none_images
    \/ start_optimization
    \/ \E k \in 1..MaxInflight : on_optim_finished(k)
    \/ export_pdf_dialog
    \/ on_export_finished

Spec == Init /\ [][Next]_vars

\* ------------------------------------------- selection specification
\* The window after load_images on a folder of SelImages files followed by
\* on_page_config_changed("2"): one page of two leaves, every image in the
\* pool, none mandatory, no lock.  From there the user flags images, drops
\* images on the page and runs the optimizer.
InitSel ==
    /\ total_images = SelImages
    /\ current_folder = FolderName
    /\ page_config_edit = "2"
    /\ num_pages_spin = 1
    /\ page_titles = <<DefaultTitle(1)>>
    /\ pages_roots = NewRoots(<<2>>)
    /\ \E shuffled \in Shuffles(SelImages) : pages_perms = NewPerms(<<2>>, shuffled, <<>>)
    /\ pages_locks = <<EmptyDict>>
    /\ image_crop_states = EmptyDict
    /\ forced_aspect_ratios = {}
    /\ current_page_idx = 0
    /\ optimize_btn = TRUE
    /\ export_btn = TRUE
    /\ pool_cb = [i \in 1..SelImages |-> TRUE]
    /\ mandatory_cb = [i \in 1..SelImages |-> FALSE]
    /\ optim_workers = <<>>
    /\ export_workers = 0
    /\ export_runs = <<>>
    /\ mode_combo = "sa"
    /\ settings = DefaultSettings
    /\ snapshots = <<>>
    /\ disk = NoFiles
    /\ snapshot_combo = -1
    /\ ops = 0
    /\ last = Did("on_page_config_changed", "ok", 0)

SelDrops == {0} \X (0..1) \X (0..(SelImages - 1))

NextSel ==
    \/ \E i \in 0..(SelImages - 1) : on_pool_toggled(i)
    \/ \E i \in 0..(SelImages - 1) : on_mandatory_toggled(i)
    \/ select_none_images
    \/ \E d \in SelDrops : handle_drop(d[1], d[2], d[3])
    \/ start_optimization
    \/ \E k \in 1..MaxInflight : on_optim_finished(k)

SpecSel == InitSel /\ [][NextSel]_vars

\* ----------------------------------------- concurrency specification
\* The window after load_images on a folder of NumImages files.  From there
\* the user picks the algorithm, starts optimizer and export runs and, while
\* they run, drops images, reconfigures and resets; the optimizer thread
\* writes its trees (linear mode), raises, or reports its result.
InitConc ==
    /\ total_images = NumImages
    /\ current_folder = FolderName
    /\ page_config_edit = DefaultConfigText(NumImages)
    /\ num_pages_spin = 1
    /\ page_titles = <<DefaultTitle(1)>>
    /\ pages_roots = NewRoots(<<IntOf(DefaultConfigText(NumImages))>>)
    /\ \E shuffled \in Shuffles(NumImages) :
       \E pads \in [1..(IntOf(DefaultConfigText(NumImages)) - NumImages)
                      -> 0..(NumImages - 1)] :
          pages_perms = NewPerms(<<IntOf(DefaultConfigText(NumImages))>>, shuffled, pads)
    /\ pages_locks = <<EmptyDict>>
    /\ image_crop_states = EmptyDict
    /\ forced_aspect_ratios = {}
    /\ current_page_idx = 0
    /\ optimize_btn = TRUE
    /\ export_btn = TRUE
    /\ pool_cb = [i \in 1..NumImages |-> TRUE]
    /\ mandatory_cb = [i \in 1..NumImages |-> FALSE]
    /\ optim_workers = <<>>
    /\ export_workers = 0
    /\ export_runs = <<>>
    /\ mode_combo = "sa"
    /\ settings = DefaultSettings
    /\ snapshots = <<>>
    /\ disk = NoFiles
    /\ snapshot_combo = -1
    /\ ops = 0
    /\ last = Did("load_images", "ok", 0)

ConcDrops == {0} \X (0..1) \X (0..(NumImages - 1))

ConcTexts == {"1", "1,2"}

NextConc ==
    \/ \E m \in {"sa", "linear"} : on_mode_changed(m)
    \/ start_optimization
    \/ \E k \in 1..MaxInflight : optim_writes_roots(k)
    \/ \E k \in 1..MaxInflight : optim_raises(k)
    \/ \E k \in 1..MaxInflight : on_optim_finished(k)
    \/ \E d \in ConcDrops : handle_drop(d[1], d[2], d[3])
    \/ \E text \in ConcTexts : on_page_config_changed(text)
    \/ reset_layout
    \/ export_pdf_dialog
    \/ on_export_finished

SpecConc == InitConc /\ [][NextConc]_vars

\* ------------------------------------------------------------ snapshots
\* serialize_tree that does not write the split of the tree.
serialize_tree_drops_split(node) ==
    [leaves |-> node.count, dir_t |-> 0, locked |-> node.locked]

\* serialize_tree (lines 23-33): the dict of a tree; leaves stands for its
\* "leaf_id", "left" and "right" entries, dir_t for its "dir" and "t" entries.
serialize_tree(node) ==
    [leaves |-> node.count, dir_t |-> node.seed, locked |-> node.locked]

\* deserialize_tree (lines 35-46); "locked" is read with data.get("locked", False).
deserialize_tree(data) ==
    [count |-> data.leaves, seed |-> data.dir_t,
     locked |-> IF "locked" \in DOMAIN data THEN data.locked ELSE FALSE]

\* str(k) for a dict key k, as json.dump writes it.
JsonKey(k) == <<"0", "1", "2", "3">>[k + 1]

\* int(s) for a key s of a JSON object.
IntKey(s) == CHOOSE k \in 0..3 : JsonKey(k) = s

\* json.dump then json.load of a dict with integer keys: the keys are text.
JsonDict(d) == [s \in {JsonKey(k) : k \in DOMAIN d} |-> d[IntKey(s)]]

\* {int(k): v for k, v in d.items()} (lines 638-639) on a dict of a snapshot
\* kept in memory (integer keys) or read from a file (textual keys).
IntDict(d, from_file) ==
    IF from_file THEN [k \in {IntKey(s) : s \in DOMAIN d} |-> d[JsonKey(k)]] ELSE d

\* Lines 548-572: snapshot_data of the current state.
SnapshotData ==
    [num_pages |-> num_pages_spin,
     page_config |-> page_config_edit,
     page_titles |-> page_titles,
     trees |-> [i \in 1..Len(pages_roots) |-> serialize_tree(pages_roots[i])],
     perms |-> pages_perms,
     locks |-> pages_locks,
     crop_states |-> image_crop_states,
     forced_aspects |-> SortedList(forced_aspect_ratios),
     settings |-> settings]

\* json.dump(snapshot_data) (line 584) as json.load reads it back (line 686).
JsonDoc(doc) ==
    [doc EXCEPT !.locks = [i \in 1..Len(doc.locks) |-> JsonDict(doc.locks[i])],
                !.crop_states = JsonDict(doc.crop_states)]

\* SnapshotName as the number of snapshot files plus one.
SnapshotName_counts_files(files) ==
    Cardinality({n \in 1..MaxSnapshots : FileExists(files[n])}) + 1

\* Lines 574-581: the smallest n >= 1 whose file does not exist.
SnapshotName(files) ==
    CHOOSE n \in 1..MaxSnapshots :
        ~FileExists(files[n]) /\ \A m \in 1..(n - 1) : FileExists(files[m])

\* What the write of lines 583-585 can do: succeed, fail in open() with no file
\* created, or fail in json.dump with the file left unfinished.
WriteOutcomes == {"ok", "open_failed", "dump_failed"}

\* take_snapshot (lines 545-591).
take_snapshot ==
    /\ Tick
    /\ \E n \in 1..MaxSnapshots : ~FileExists(disk[n])
    /\ IF current_folder = NoFolder
       THEN /\ UNCHANGED <<snapshots, disk, snapshot_combo>>
            /\ last' = Did("take_snapshot", "no_folder", 0)
       ELSE \E write \in WriteOutcomes :
              IF write = "ok"
              THEN /\ snapshots' =
                        Append(snapshots,
                               [path |-> SnapshotName(disk),
                                data |-> SnapshotData, from_file |-> FALSE,
                                group |-> IF \E i \in 1..Len(snapshots) : snapshots[i].live
                                          THEN (CHOOSE g \in 1..Len(snapshots) :
                                                  \E i \in 1..Len(snapshots) :
                                                      snapshots[i].live /\ snapshots[i].group = g)
                                          ELSE Len(snapshots) + 1,
                                live |-> TRUE])
                   /\ disk' = [disk EXCEPT ![SnapshotName(disk)] = JsonDoc(SnapshotData)]
                   /\ snapshot_combo' = Len(snapshots)
                   /\ last' = Did("take_snapshot", "ok", SnapshotName(disk))
              ELSE /\ disk' = (IF write = "dump_failed"
                               THEN [disk EXCEPT ![SnapshotName(disk)] = PartialFile]
                               ELSE disk)
                   /\ UNCHANGED <<snapshots, snapshot_combo>>
                   /\ last' = Did("take_snapshot", "io_error", SnapshotName(disk))
    /\ UNCHANGED <<engine, flags, workers, mode_combo, settings>>

\* The groups of a snapshot list renumbered after entries moved.
Regroup(snaps) ==
    [j \in 1..Len(snaps) |->
        [snaps[j] EXCEPT !.group =
            CHOOSE i \in 1..j : /\ snaps[i].group = snaps[j].group
                                /\ \A h \in 1..(i - 1) : snaps[h].group # snaps[j].group]]

\* AfterDelete removing the entry before the file is unlinked.
AfterDelete_pops_first(snaps, idx, failed) == Regroup(RemoveAt(snaps, idx + 1))

\* Lines 600-608: the entry is removed after path.unlink(); when unlink raises,
\* the handler shows the error and removes nothing.
AfterDelete(snaps, idx, failed) ==
    IF failed THEN snaps ELSE Regroup(RemoveAt(snaps, idx + 1))

\* delete_snapshot (lines 593-608) on the entry the combo box shows.  After
\* removeItem the combo box shows the entry that took the place of the removed
\* one, or the last one.
delete_snapshot ==
    /\ Tick
    /\ IF snapshot_combo < 0 \/ snapshot_combo >= Len(snapshots)
       THEN /\ UNCHANGED <<snapshots, disk, snapshot_combo>>
            /\ last' = Did("delete_snapshot", "no_selection", 0)
       ELSE LET path == snapshots[snapshot_combo + 1].path IN
            \E failed \in (IF FileExists(disk[path]) THEN BOOLEAN ELSE {FALSE}) :
                /\ snapshots' = AfterDelete(snapshots, snapshot_combo, failed)
                /\ disk' = (IF failed THEN disk ELSE [disk EXCEPT ![path] = NoFile])
                /\ snapshot_combo' = (IF failed THEN snapshot_combo
                                      ELSE Min(Len(snapshots) - 2, snapshot_combo))
                /\ last' = Did("delete_snapshot", IF failed THEN "io_error" ELSE "ok", path)
    /\ UNCHANGED <<engine, flags, workers, mode_combo, settings>>

\* The user selects entry i of the snapshot combo box.
on_snapshot_selected(i) ==
    /\ Tick
    /\ i < Len(snapshots)
    /\ i # snapshot_combo
    /\ snapshot_combo' = i
    /\ UNCHANGED <<engine, flags, workers, mode_combo, settings, snapshots, disk>>
    /\ last' = Did("on_snapshot_selected", "ok", i)

\* The keys restore_snapshot reads with data[...], in the order of lines 618-640.
RequiredFields ==
    <<"num_pages", "page_config", "trees", "perms", "locks", "crop_states",
      "forced_aspects">>

\* The number of statements reading a required key that restore_snapshot
\* passes before a KeyError: 7 when the document has every required key.
Reached(data) ==
    Cardinality({k \in 1..Len(RequiredFields) :
                    \A j \in 1..k : RequiredFields[j] \in DOMAIN data})

\* Lines 621-626: settings.get(name, default) for every display setting.
SettingsOf(data) ==
    IF "settings" \in DOMAIN data
    THEN [f \in DOMAIN DefaultSettings |->
            IF f \in DOMAIN data.settings THEN data.settings[f] ELSE DefaultSettings[f]]
    ELSE DefaultSettings

\* Line 635: data.get("page_titles", [data.get("title", "default title")] * num_pages)
TitlesOf(data) ==
    IF "page_titles" \in DOMAIN data THEN data.page_titles
    ELSE [i \in 1..data.num_pages |->
            IF "title" \in DOMAIN data THEN data.title
            ELSE [text |-> "default title", n |-> 0]]

\* Line 636
TreesOf(data) == [i \in 1..Len(data.trees) |-> deserialize_tree(data.trees[i])]

\* Line 638
LocksOf(data, from_file) ==
    [i \in 1..Len(data.locks) |-> IntDict(data.locks[i], from_file)]

\* Line 640
ForcedOf(data) == Range(data.forced_aspects)

\* restore_snapshot (lines 610-647) on the entry the combo box shows.  Line
\* 618 sets the spin box with its signal connected (line 388): when the value
\* changes, init_trees runs on the text the line edit still holds.  The
\* statements then run in order up to the first data[key] whose key is absent.
restore_snapshot ==
    /\ Tick
    /\ IF snapshot_combo < 0 \/ snapshot_combo >= Len(snapshots)
       THEN /\ UNCHANGED <<engine, optim_workers, settings, snapshots>>
            /\ last' = Did("restore_snapshot", "no_selection", 0)
       ELSE LET data == snapshots[snapshot_combo + 1].data
                from_file == snapshots[snapshot_combo + 1].from_file
                k == Reached(data)
            IN  IF k = 0
                THEN /\ UNCHANGED <<engine, optim_workers, settings, snapshots>>
                     /\ last' = Did("restore_snapshot", "key_error", 0)
                ELSE \E r \in (IF SpinClamp(data.num_pages) = num_pages_spin
                               THEN {[path |-> "same", spin |-> num_pages_spin,
                                      titles |-> page_titles, roots |-> pages_roots,
                                      perms |-> pages_perms, locks |-> pages_locks,
                                      ws |-> optim_workers, page |-> current_page_idx,
                                      optimize |-> optimize_btn, export |-> export_btn,
                                      rebound |-> FALSE]}
                               ELSE InitTreesOutcomes(total_images, page_config_edit,
                                        SpinClamp(data.num_pages), page_titles,
                                        pages_roots, pages_perms, pages_locks,
                                        optim_workers, current_page_idx,
                                        optimize_btn, export_btn)) :
                     /\ num_pages_spin' = r.spin
                     /\ optimize_btn' = r.optimize
                     /\ export_btn' = r.export
                     /\ page_config_edit' = (IF k >= 2 THEN data.page_config
                                             ELSE page_config_edit)
                     /\ settings' = (IF k >= 2 THEN SettingsOf(data) ELSE settings)
                     /\ page_titles' = (IF k >= 2 THEN TitlesOf(data) ELSE r.titles)
                     /\ snapshots' =
                           (IF k >= 2
                            THEN [i \in 1..Len(snapshots) |->
                                    [snapshots[i] EXCEPT !.live =
                                        /\ "page_titles" \in DOMAIN data
                                        /\ snapshots[i].group =
                                              snapshots[snapshot_combo + 1].group]]
                            ELSE IF r.rebound THEN Unalias(snapshots) ELSE snapshots)
                     /\ pages_roots' = (IF k >= 3 THEN TreesOf(data) ELSE r.roots)
                     /\ pages_perms' = (IF k >= 4 THEN data.perms ELSE r.perms)
                     /\ pages_locks' = (IF k >= 5 THEN LocksOf(data, from_file)
                                        ELSE r.locks)
                     /\ optim_workers' = Detach(r.ws, k >= 3, k >= 5)
                     /\ image_crop_states' = (IF k >= 6
                                              THEN IntDict(data.crop_states, from_file)
                                              ELSE image_crop_states)
                     /\ forced_aspect_ratios' = (IF k = 7 THEN ForcedOf(data)
                                                 ELSE forced_aspect_ratios)
                     /\ current_page_idx' = (IF k = 7 THEN 0 ELSE r.page)
                     /\ UNCHANGED <<total_images, current_folder>>
                     /\ last' = Did("restore_snapshot",
                                    IF k = 7 THEN "ok" ELSE "key_error", k)
    /\ UNCHANGED <<flags, export_workers, export_runs, mode_combo, disk, snapshot_combo>>

\* A file <folder-name>_snapshot_<n>.json appears in the folder with a JSON
\* document that has no key field: the document of the current state, that key
\* removed.
folder_gets_file(n, field) ==
    /\ Tick
    /\ ~FileExists(disk[n])
    /\ current_folder # NoFolder
    /\ disk' = [disk EXCEPT ![n] =
                    [f \in DOMAIN SnapshotData \ {field} |-> JsonDoc(SnapshotData)[f]]]
    /\ UNCHANGED <<engine, flags, workers, mode_combo, settings, snapshots,
                   snapshot_combo>>
    /\ last' = Did("folder_gets_file", field, 0)

\* The texts the user types into the title line edit.
TitleTexts == {"a"}

\* A title typed by the user (no page number appended).
CustomTitle(t) == [text |-> t, n |-> 0]

\* on_title_return_pressed (lines 1292-1295) with text in the title line edit:
\* the title of the current page is replaced in the list.
on_title_return_pressed(text) ==
    /\ Tick
    /\ IF 0 <= current_page_idx /\ current_page_idx < Len(page_titles)
       THEN /\ page_titles' = [page_titles EXCEPT ![current_page_idx + 1] = CustomTitle(text)]
            /\ snapshots' = SeeTitles(snapshots, page_titles')
            /\ last' = Did("on_title_return_pressed", "ok", current_page_idx)
       ELSE /\ UNCHANGED <<page_titles, snapshots>>
            /\ last' = Did("on_title_return_pressed", "no_page", current_page_idx)
    /\ UNCHANGED <<total_images, current_folder, page_config_edit, num_pages_spin,
                   pages_roots, pages_perms, pages_locks, image_crop_states,
                   forced_aspect_ratios, current_page_idx, optimize_btn, export_btn,
                   flags, workers, mode_combo, settings, disk, snapshot_combo>>

\* apply_title_to_all (lines 1297-1301): every entry of the list is replaced.
apply_title_to_all(text) ==
    /\ Tick
    /\ page_titles' = [i \in 1..Len(page_titles) |-> CustomTitle(text)]
    /\ snapshots' = SeeTitles(snapshots, page_titles')
    /\ UNCHANGED <<total_images, current_folder, page_config_edit, num_pages_spin,
                   pages_roots, pages_perms, pages_locks, image_crop_states,
                   forced_aspect_ratios, current_page_idx, optimize_btn, export_btn,
                   flags, workers, mode_combo, settings, disk, snapshot_combo>>
    /\ last' = Did("apply_title_to_all", "ok", 0)

\* toggle_crop_state (lines 1048-1051)
toggle_crop_state(img_idx) ==
    /\ Tick
    /\ image_crop_states' =
          DictSet(image_crop_states, img_idx,
                  ~(IF img_idx \in DOMAIN image_crop_states
                    THEN image_crop_states[img_idx] ELSE TRUE))
    /\ UNCHANGED <<total_images, current_folder, page_config_edit, num_pages_spin,
                   page_titles, pages_roots, pages_perms, pages_locks,
                   forced_aspect_ratios, current_page_idx, optimize_btn, export_btn,
                   flags, workers, extras>>
    /\ last' = Did("toggle_crop_state", "ok", img_idx)

\* toggle_aspect_lock (lines 1053-1059)
toggle_aspect_lock(img_idx) ==
    /\ Tick
    /\ IF img_idx \in forced_aspect_ratios
       THEN /\ forced_aspect_ratios' = forced_aspect_ratios \ {img_idx}
            /\ UNCHANGED image_crop_states
       ELSE /\ forced_aspect_ratios' = forced_aspect_ratios \cup {img_idx}
            /\ image_crop_states' = DictSet(image_crop_states, img_idx, FALSE)
    /\ UNCHANGED <<total_images, current_folder, page_config_edit, num_pages_spin,
                   page_titles, pages_roots, pages_perms, pages_locks,
                   current_page_idx, optimize_btn, export_btn,
                   flags, workers, extras>>
    /\ last' = Did("toggle_aspect_lock", "ok", img_idx)

\* on_show_labels_toggled (lines 1061-1063)
on_show_labels_toggled ==
    /\ Tick
    /\ settings' = [settings EXCEPT !.show_labels = ~@]
    /\ UNCHANGED <<engine, flags, workers, mode_combo, snapshots, disk, snapshot_combo>>
    /\ last' = Did("on_show_labels_toggled", "ok", 0)

\* Number of handlers a behaviour of the snapshot specification runs.
MaxSnapOps == 4

SnapStep == ops < MaxSnapOps

\* The window after load_images on a folder of NumImages files: the user takes,
\* selects and restores snapshots, reloads the folder, edits the layout, the
\* crop states and a display setting, and files appear in the folder.
NextSnap ==
    \/ SnapStep /\ take_snapshot
    \/ SnapStep /\ restore_snapshot
    \/ \E i \in 0..(MaxSnapshots - 1) : SnapStep /\ on_snapshot_selected(i)
    \/ \E n \in 1..MaxSnapshots : \E f \in Range(RequiredFields) :
          SnapStep /\ folder_gets_file(n, f)
    \/ SnapStep /\ load_images(NumImages)
    \/ \E d \in ConcDrops : SnapStep /\ handle_drop(d[1], d[2], d[3])
    \/ \E text \in ConcTexts : SnapStep /\ on_page_config_changed(text)
    \/ \E i \in 0..(NumImages - 1) : SnapStep /\ toggle_crop_state(i)
    \/ \E i \in 0..(NumImages - 1) : SnapStep /\ toggle_aspect_lock(i)
    \/ SnapStep /\ on_show_labels_toggled

SpecSnap == InitConc /\ [][NextSnap]_vars

\* ------------------------------------------- snapshot file specification
\* The window after load_images on a folder of NumImages files: the user takes,
\* selects and deletes snapshots, reloads the folder and drops an image, files
\* appear in the folder, and writing or deleting a file can fail.
NextFiles ==
    \/ take_snapshot
    \/ delete_snapshot
    \/ \E i \in 0..(MaxSnapshots - 1) : on_snapshot_selected(i)
    \/ \E n \in 1..MaxSnapshots : folder_gets_file(n, "trees")
    \/ load_images(NumImages)
    \/ handle_drop(0, 0, 0)

SpecFiles == InitConc /\ [][NextFiles]_vars

\* ------------------------------------------- snapshot edit specification
\* The window after load_images on a folder of NumImages files: the user takes
\* and restores snapshots and, in between, drops images, edits titles, toggles
\* the crop state and the aspect lock of an image and edits the slot
\* specification.
NextEdit ==
    \/ take_snapshot
    \/ restore_snapshot
    \/ \E d \in ConcDrops : handle_drop(d[1], d[2], d[3])
    \/ \E t \in TitleTexts : on_title_return_pressed(t)
    \/ \E t \in TitleTexts : apply_title_to_all(t)
    \/ toggle_crop_state(0)
    \/ toggle_aspect_lock(0)
    \/ \E text \in ConcTexts : on_page_config_changed(text)

SpecEdit == InitConc /\ [][NextEdit]_vars

\* ------------------------------------------------ chunk specification
\* The window after load_images on a folder of SelImages files followed by
\* on_page_config_changed with one of the texts "2" and "1,1": fewer slots
\* than images, on one page or on two.  From there the user flags images,
\* drops images on the pages and starts the optimizer.
ChunkConfigs == {[text |-> "2", counts |-> <<2>>], [text |-> "1,1", counts |-> <<1, 1>>]}

InitChunk ==
    /\ total_images = SelImages
    /\ current_folder = FolderName
    /\ \E cfg \in ChunkConfigs :
          /\ page_config_edit = cfg.text
          /\ num_pages_spin = Len(cfg.counts)
          /\ page_titles = NewTitles(<<>>, Len(cfg.counts))
          /\ pages_roots = NewRoots(cfg.counts)
          /\ \E shuffled \in Shuffles(SelImages) :
                pages_perms = NewPerms(cfg.counts, shuffled, <<>>)
          /\ pages_locks = [i \in 1..Len(cfg.counts) |-> EmptyDict]
    /\ image_crop_states = EmptyDict
    /\ forced_aspect_ratios = {}
    /\ current_page_idx = 0
    /\ optimize_btn = TRUE
    /\ export_btn = TRUE
    /\ pool_cb = [i \in 1..SelImages |-> TRUE]
    /\ mandatory_cb = [i \in 1..SelImages |-> FALSE]
    /\ optim_workers = <<>>
    /\ export_workers = 0
    /\ export_runs = <<>>
    /\ mode_combo = "sa"
    /\ settings = DefaultSettings
    /\ snapshots = <<>>
    /\ disk = NoFiles
    /\ snapshot_combo = -1
    /\ ops = 0
    /\ last = Did("on_page_config_changed", "ok", 0)

ChunkDrops == (0..1) \X (0..1) \X (0..(SelImages - 1))

NextChunk ==
    \/ \E i \in 0..(SelImages - 1) : on_pool_toggled(i)
    \/ \E i \in 0..(SelImages - 1) : on_mandatory_toggled(i)
    \/ \E d \in ChunkDrops : handle_drop(d[1], d[2], d[3])
    \/ start_optimization

SpecChunk == InitChunk /\ [][NextChunk]_vars

\* -------------------------------------------------- export specification
\* The window of the chunk specification (SelImages images on one page of two
\* leaves or on two pages of one): the user starts exports and edits the slot
\* specification, the export threads render their pages and end.
ExportTexts == {"2", "1,2"}

NextExport ==
    \/ export_pdf_dialog
    \/ \E k \in 1..MaxInflight : export_renders_page(k)
    \/ on_export_finished
    \/ \E text \in ExportTexts : on_page_config_changed(text)

SpecExport == InitChunk /\ [][NextExport]_vars

\* ------------------------------------------- reconfiguration specification
\* The window of the selection specification (SelImages images, one page of
\* two leaves): the user edits the slot specification and the page count,
\* resets the layout, drops images on the pages and edits the title of the
\* page shown.
PermTexts == {"1", "2", "4", "1,2", "x"}

NextPerm ==
    \/ \E text \in PermTexts : on_page_config_changed(text)
    \/ \E v \in 1..MaxPages : on_num_pages_changed(v)
    \/ reset_layout
    \/ \E d \in SelDrops : handle_drop(d[1], d[2], d[3])
    \/ \E t \in TitleTexts : on_title_return_pressed(t)

SpecPerm == InitSel /\ [][NextPerm]_vars

\* ---------------------------------------------------- flag specification
\* The window of the selection specification: the user clicks the "Pool" and
\* "Mandatory" boxes of the SelImages entries, the "Select All" and "Select
\* None" buttons, and loads the folder again, which makes new entries.
NextFlags ==
    \/ \E i \in 0..(SelImages - 1) : on_pool_toggled(i)
    \/ \E i \in 0..(SelImages - 1) : on_mandatory_toggled(i)
    \/ select_none_images
    \/ select_all_images
    \/ load_images(SelImages)

SpecFlags == InitSel /\ [][NextFlags]_vars

\* ---------------------------------------------- navigation specification
\* prev_page (lines 1259-1263), the user clicking the previous-page button.
prev_page ==
    /\ Tick
    /\ current_page_idx' = (IF current_page_idx > 0 THEN current_page_idx - 1
                            ELSE current_page_idx)
    /\ UNCHANGED <<total_images, current_folder, page_config_edit, num_pages_spin,
                   page_titles, pages_roots, pages_perms, pages_locks,
                   image_crop_states, forced_aspect_ratios, optimize_btn, export_btn,
                   flags, workers, extras>>
    /\ last' = Did("prev_page", IF current_page_idx > 0 THEN "moved" ELSE "stay", 0)

\* next_page (lines 1265-1269), the user clicking the next-page button.
next_page ==
    /\ Tick
    /\ current_page_idx' = (IF current_page_idx < Len(pages_roots) - 1
                            THEN current_page_idx + 1 ELSE current_page_idx)
    /\ UNCHANGED <<total_images, current_folder, page_config_edit, num_pages_spin,
                   page_titles, pages_roots, pages_perms, pages_locks,
                   image_crop_states, forced_aspect_ratios, optimize_btn, export_btn,
                   flags, workers, extras>>
    /\ last' = Did("next_page",
                   IF current_page_idx < Len(pages_roots) - 1 THEN "moved" ELSE "stay", 0)

\* The keys a snapshot file of the folder may lack; "none" for a complete file.
NavMissing == {"none", "perms"}

\* The window after load_images on a folder of NumImages files and one
\* snapshot file, snapshot 1, holding the document of a one-page layout,
\* complete or without one key (lines 678-690 load whatever json.load reads).
InitNav ==
    /\ total_images = NumImages
    /\ current_folder = FolderName
    /\ page_config_edit = DefaultConfigText(NumImages)
    /\ num_pages_spin = 1
    /\ page_titles = <<DefaultTitle(1)>>
    /\ pages_roots = NewRoots(<<IntOf(DefaultConfigText(NumImages))>>)
    /\ \E shuffled \in Shuffles(NumImages) :
       \E pads \in [1..(IntOf(DefaultConfigText(NumImages)) - NumImages)
                      -> 0..(NumImages - 1)] :
          pages_perms = NewPerms(<<IntOf(DefaultConfigText(NumImages))>>, shuffled, pads)
    /\ pages_locks = <<EmptyDict>>
    /\ image_crop_states = EmptyDict
    /\ forced_aspect_ratios = {}
    /\ current_page_idx = 0
    /\ optimize_btn = TRUE
    /\ export_btn = TRUE
    /\ pool_cb = [i \in 1..NumImages |-> TRUE]
    /\ mandatory_cb = [i \in 1..NumImages |-> FALSE]
    /\ optim_workers = <<>>
    /\ export_workers = 0
    /\ export_runs = <<>>
    /\ mode_combo = "sa"
    /\ settings = DefaultSettings
    /\ \E missing \in NavMissing :
          disk = [n \in 1..MaxSnapshots |->
                     IF n = 1
                     THEN [f \in DOMAIN SnapshotData \ {missing} |->
                              JsonDoc(SnapshotData)[f]]
                     ELSE NoFile]
    /\ snapshots = LoadSnapshots(disk)
    /\ snapshot_combo = 0
    /\ ops = 0
    /\ last = Did("load_images", "ok", 0)

NavTexts == {"1,2", "x"}

\* From there the user reconfigures, turns pages, restores the snapshot,
\* loads the folder again and runs the optimizer.
NextNav ==
    \/ prev_page
    \/ next_page
    \/ \E text \in NavTexts : on_page_config_changed(text)
    \/ \E v \in 1..MaxPages : on_num_pages_changed(v)
    \/ restore_snapshot
    \/ load_images(NumImages)
    \/ start_optimization
    \/ \E k \in 1..MaxInflight : on_optim_finished(k)

SpecNav == InitNav /\ [][NextNav]_vars

\* ================================================================ claims
\* The reconfigurations the user triggers directly.
Reconfigured(op) == op \in {"on_page_config_changed", "on_num_pages_changed"}

\* C1: in every reachable state, no page's lock map gives the same image to
\* two different leaves of that page.
C1_LockUniquePerPage ==
    \A p \in 1..Len(pages_locks) :
        \A l1, l2 \in DOMAIN pages_locks[p] :
            pages_locks[p][l1] = pages_locks[p][l2] => l1 = l2

\* C1 witness: a drop has just moved an image's lock from another leaf of the
\* page, and the page holds a second lock.
C1_Witness ==
    /\ last.op = "handle_drop"
    /\ last.aux = 1
    /\ \E p \in 1..Len(pages_locks) : Cardinality(DOMAIN pages_locks[p]) >= 2

\* C2: in every reachable state every lock agrees with the permutation: for
\* every page p and every locked leaf l, pages_perms[p][l] = pages_locks[p][l].
C2_LocksAgreeWithPerms ==
    \A p \in 1..Len(pages_locks) :
        \A l \in DOMAIN pages_locks[p] :
            /\ p <= Len(pages_perms)
            /\ l < Len(pages_perms[p])
            /\ pages_perms[p][l + 1] = pages_locks[p][l]

\* C3: in every reachable state every page's permutation has exactly as many
\* entries as its tree has leaves (one permutation per tree).
C3_PermLengthIsLeafCount ==
    /\ Len(pages_perms) = Len(pages_roots)
    /\ \A p \in 1..Len(pages_roots) :
          Len(pages_perms[p]) = Cardinality(leaf_ids(pages_roots[p]))

\* A slot specification that fails to parse or holds a count that is not a
\* power of two.
InvalidSpecText(text) ==
    \/ \E k \in DOMAIN SplitItems(text) : ~IsIntText(SplitItems(text)[k])
    \/ \E k \in DOMAIN SplitItems(text) :
          /\ IsIntText(SplitItems(text)[k])
          /\ IntOf(SplitItems(text)[k]) \notin {1, 2, 4, 8, 16}

\* C4: a reconfiguration with an invalid slot specification, run while a valid
\* configuration exists, leaves trees, permutations, locks, titles and the
\* page-count setting as they were.
C4_InvalidSpecKeepsState ==
    [][\A text \in ConfigTexts :
          (/\ on_page_config_changed(text)
           /\ InvalidSpecText(text)
           /\ total_images > 0
           /\ pages_roots # <<>>)
          => UNCHANGED <<pages_roots, pages_perms, pages_locks, page_titles,
                         num_pages_spin>>]_vars

\* The arguments of a drop are in range: the page exists, the leaf is one of
\* its permutation's positions, the image is one of the loaded images.
DropInRange(p, l, i) ==
    /\ p >= 0 /\ p < Len(pages_roots) /\ p < Len(pages_perms)
    /\ l >= 0 /\ l < Len(pages_perms[p + 1])
    /\ i >= 0 /\ i < total_images

\* C5: a drop with in-range arguments ends with the image at the leaf, in the
\* permutation and in the lock map; when the image held another leaf j, the
\* contents of j and the leaf are swapped and no other leaf changes; otherwise
\* no leaf but the target changes.
C5_DropSwapsOrOverwrites ==
    [][\A d \in DropInputs :
          (handle_drop(d[1], d[2], d[3]) /\ DropInRange(d[1], d[2], d[3]))
          => LET p == d[1] + 1
                 l == d[2] + 1
                 i == d[3]
                 old == pages_perms[p]
                 new == pages_perms'[p]
             IN  /\ new[l] = i
                 /\ d[2] \in DOMAIN pages_locks'[p]
                 /\ pages_locks'[p][d[2]] = i
                 /\ Len(new) = Len(old)
                 /\ IF \E j \in 1..Len(old) : j # l /\ old[j] = i
                    THEN \E j \in 1..Len(old) :
                            /\ j # l /\ old[j] = i
                            /\ new[j] = old[l]
                            /\ \A k \in 1..Len(old) : k \notin {j, l} => new[k] = old[k]
                    ELSE \A k \in 1..Len(old) : k # l => new[k] = old[k]]_vars

\* C5 witness: a drop has just swapped two leaves of a page of four leaves, the
\* only page, whose target leaf is now locked.
C5_Witness ==
    /\ last.op = "handle_drop"
    /\ last.path = "swap"
    /\ Len(pages_perms) = 1
    /\ Len(pages_perms[1]) = 4
    /\ \E l \in DOMAIN pages_locks[1] : pages_perms[1][l + 1] = pages_locks[1][l]

\* C6: a drop whose page index is past the last page, whose leaf is outside
\* the page's permutation or whose image index is outside the loaded images
\* changes neither permutations, locks, crop states nor the forced-aspect set.
C6_OutOfRangeDropIsNoOp ==
    [][\A d \in DropInputs :
          (handle_drop(d[1], d[2], d[3]) /\ ~DropInRange(d[1], d[2], d[3]))
          => UNCHANGED <<pages_perms, pages_locks, image_crop_states,
                         forced_aspect_ratios>>]_vars

\* C6 witness: a drop on an existing page has just returned because of its
\* leaf id, with pages, locks and forced aspects present.
C6_Witness ==
    /\ last.op = "handle_drop"
    /\ last.path = "return_leaf"
    /\ pages_perms # <<>>
    /\ TotalLocks(pages_locks) > 0
    /\ forced_aspect_ratios # {}

\* The locks of page p (1-based) that lie below the leaf count n.
LocksBelow(locks, p, n) ==
    [k \in {x \in DOMAIN locks[p] : x < n} |-> locks[p][k]]

\* C7 as claimed: a valid reconfiguration keeps, for every page index that
\* still exists, the locks whose leaf id is below the page's new leaf count,
\* whatever the old and new numbers of pages.
C7_LocksKeptByIndex ==
    [][(Reconfigured(last'.op) /\ last'.path = "ok" /\ ops' = ops + 1)
       => /\ Len(pages_locks') = Len(pages_roots')
          /\ \A p \in 1..Len(pages_roots') :
                pages_locks'[p] =
                    IF p <= Len(pages_locks)
                    THEN LocksBelow(pages_locks, p, pages_roots'[p].count)
                    ELSE EmptyDict]_vars

\* C7 amended: a valid reconfiguration that keeps the number of pages keeps
\* exactly the locks whose leaf id is below the page's new leaf count; one
\* that changes the number of pages removes every lock.
C7_LocksKeptWhenPageCountSame ==
    [][(Reconfigured(last'.op) /\ last'.path = "ok" /\ ops' = ops + 1)
       => /\ Len(pages_locks') = Len(pages_roots')
          /\ \A p \in 1..Len(pages_roots') :
                pages_locks'[p] =
                    IF Len(pages_roots') = Len(pages_locks)
                    THEN LocksBelow(pages_locks, p, pages_roots'[p].count)
                    ELSE EmptyDict]_vars

\* C7 witness: a valid reconfiguration has just kept a lock and removed one.
C7_Witness ==
    /\ Reconfigured(last.op)
    /\ last.path = "ok"
    /\ TotalLocks(pages_locks) > 0
    /\ TotalLocks(pages_locks) < last.aux

\* The request start_optimization validates, in the claim's terms.
TotalSlots == SumSeq([p \in 1..Len(pages_roots) |-> pages_roots[p].count])

MandatorySet ==
    {i \in 0..(total_images - 1) :
        \/ mandatory_cb[i + 1]
        \/ \E p \in 1..Len(pages_locks) : \E l \in DOMAIN pages_locks[p] :
              pages_locks[p][l] = i}

OptionalSet == {i \in 0..(total_images - 1) : pool_cb[i + 1] /\ i \notin MandatorySet}

\* C8: start_optimization with more mandatory images than slots changes
\* neither trees, permutations, locks nor flags.
C8_OverMandatoryMutatesNothing ==
    [][(start_optimization /\ Cardinality(MandatorySet) > TotalSlots)
       => UNCHANGED <<pages_roots, pages_perms, pages_locks, pool_cb,
                      mandatory_cb>>]_vars

\* C9: start_optimization starts no worker and leaves the optimize trigger
\* enabled when there are more mandatory images than slots or fewer mandatory
\* plus optional images than slots; it starts a worker only when both checks
\* pass.
C9_NoDispatchWhenInfeasible ==
    [][start_optimization
       => LET infeasible ==
                 \/ Cardinality(MandatorySet) > TotalSlots
                 \/ Cardinality(MandatorySet) + Cardinality(OptionalSet) < TotalSlots
          IN  /\ infeasible => (optim_workers' = optim_workers /\ optimize_btn')
              /\ optim_workers' # optim_workers => ~infeasible]_vars

\* C9 witness: start_optimization has just refused an under-supplied request:
\* no worker is in flight and the trigger is still enabled.
C9_Witness ==
    /\ last.op = "start_optimization"
    /\ last.path = "not_enough_images"
    /\ Cardinality(MandatorySet) + Cardinality(OptionalSet) < TotalSlots
    /\ optim_workers = <<>>
    /\ optimize_btn

\* C10: while an optimizer or export worker is in flight no second run is
\* started: at most one worker is in flight, and both triggers are disabled
\* while it is.
C10_NoConcurrentRun ==
    /\ Len(optim_workers) + export_workers <= 1
    /\ Len(optim_workers) + export_workers = 1 => (~optimize_btn /\ ~export_btn)

\* The control-thread handlers that mutate trees, locks or permutations while
\* the threads in flight stay the same.
MutatorStep ==
    \/ \E d \in ConcDrops : handle_drop(d[1], d[2], d[3])
    \/ \E text \in ConcTexts : on_page_config_changed(text)
    \/ reset_layout

\* C11: the optimizer thread runs on a copy taken at dispatch: a control-thread
\* mutation (drop, reconfiguration, reset) changes neither the trees nor the
\* locks a thread in flight reads, and a step of the thread itself changes no
\* engine state.
C11_WorkerRunsOnCopy ==
    [][/\ MutatorStep =>
            \A k \in 1..Len(optim_workers) :
                /\ optim_workers'[k].roots = optim_workers[k].roots
                /\ optim_workers'[k].locks = optim_workers[k].locks
       /\ (\E k \in 1..MaxInflight : optim_writes_roots(k) \/ optim_raises(k))
            => UNCHANGED engine]_vars

\* C12: an optimizer result is committed in one step: no step applies the new
\* trees of a linear-partition run to pages_roots without applying the run's
\* permutations to pages_perms.
C12_ResultCommittedInOneStep ==
    [][\A k \in 1..Len(optim_workers) :
          (/\ optim_workers[k].mode = "linear"
           /\ Len(optim_workers') = Len(optim_workers)
           /\ optim_workers'[k].wrote
           /\ ~optim_workers[k].wrote
           /\ pages_roots' # pages_roots)
          => pages_perms' = optim_workers'[k].results]_vars

\* C13: once a worker has ended, by its completion handler or by a failure of
\* its external call, and no worker is left in flight, the optimize and export
\* controls are enabled: nothing else is pending that would enable them.
C13_ControlsReenabledAfterWorker ==
    (/\ last.op \in {"on_optim_finished", "on_export_finished", "optim_raised"}
     /\ optim_workers = <<>>
     /\ export_workers = 0
     /\ pages_roots # <<>>)
    => (optimize_btn /\ export_btn)

\* C14: start_optimization leaves every tree as it was when some page has a
\* locked leaf; it replaces trees only when no page has any.
C14_TreesKeptWhenLocked ==
    [][start_optimization =>
          (TotalLocks(pages_locks) > 0 => pages_roots' = pages_roots)]_vars

\* The n optional images that come first in pool order.
FirstOptional(n) == {i \in OptionalSet : Cardinality({j \in OptionalSet : j < i}) < n}

\* start_optimization has just dispatched a thread: the request it built.
Dispatched == last.op = "start_optimization" /\ last.path = "ok"

Request == optim_workers[Len(optim_workers)]

\* The images of the chunks of a request.
ChunkImages(w) == UNION {Range(w.chunks[p]) : p \in 1..Len(w.chunks)}

\* The active set start_optimization builds in the current state.
ActiveNow ==
    ActiveIndices(MandatoryIndices(pages_locks, mandatory_cb),
                  OptionalIndices(pages_locks, pool_cb, mandatory_cb),
                  SumSeq(PageCounts(pages_roots)))

\* C17: when validation passes, the active set is the mandatory images plus
\* the first total_slots - |mandatory| optional images in pool order, and it
\* holds exactly total_slots distinct images.
C17_ActiveIsMandatoryPlusFirstOptional ==
    [][(start_optimization /\ Len(optim_workers') > Len(optim_workers))
       => /\ Range(ActiveNow) =
                MandatorySet \cup FirstOptional(TotalSlots - Cardinality(MandatorySet))
          /\ Len(ActiveNow) = TotalSlots
          /\ Cardinality(Range(ActiveNow)) = TotalSlots]_vars

\* C17 witness: a thread was dispatched with a mandatory image and with more
\* optional images than free slots.
C17_Witness ==
    /\ Dispatched
    /\ MandatorySet # {}
    /\ Cardinality(OptionalSet) > TotalSlots - Cardinality(MandatorySet)
    /\ TotalSlots > Cardinality(MandatorySet)

\* C18: when validation passes, every page's chunk holds as many images as the
\* page has leaves.
C18_ChunkLengthIsLeafCount ==
    Dispatched =>
        /\ Len(Request.chunks) = Len(pages_roots)
        /\ \A p \in 1..Len(pages_roots) :
              Len(Request.chunks[p]) = pages_roots[p].count

\* C18 witness: a thread was dispatched for two pages, one of which has a lock.
C18_Witness ==
    /\ Dispatched
    /\ Len(pages_roots) = 2
    /\ TotalLocks(pages_locks) > 0

\* C19: in the request every active image is in exactly one chunk, at one
\* position: none is in two chunks and none is left out.
C19_ActiveInExactlyOneChunk ==
    Dispatched =>
        \A i \in Range(ActiveNow) :
            Cardinality({pp \in {<<p, k>> : p \in 1..Len(Request.chunks), k \in 1..MaxTotalSlots} :
                            /\ pp[2] <= Len(Request.chunks[pp[1]])
                            /\ Request.chunks[pp[1]][pp[2]] = i}) = 1

\* C20: the swap pool is the optional images beyond the slice taken into the
\* active set; it is disjoint from every chunk, and active set and swap pool
\* together are the mandatory and the optional images.
C20_SwapPoolIsRestOfOptional ==
    Dispatched =>
        /\ Range(Request.swap_pool) =
              OptionalSet \ FirstOptional(TotalSlots - Cardinality(MandatorySet))
        /\ Len(Request.swap_pool) = Cardinality(Range(Request.swap_pool))
        /\ Range(Request.swap_pool) \cap ChunkImages(Request) = {}
        /\ Range(ActiveNow) \cup Range(Request.swap_pool) = MandatorySet \cup OptionalSet

\* C20 witness: a thread was dispatched with a swap pool of one image or more
\* and a locked image.
C20_Witness ==
    /\ Dispatched
    /\ Request.swap_pool # <<>>
    /\ TotalLocks(pages_locks) > 0

\* The data the claims on snapshots compare.
Layout ==
    <<pages_roots, pages_perms, pages_locks, image_crop_states, forced_aspect_ratios>>

\* A snapshot entry without what the claims on the layout leave aside: its
\* titles and the identity of its title list.
LayoutPart(entry) ==
    [data |-> [entry.data EXCEPT !.page_titles = <<>>], from_file |-> entry.from_file]

\* The layout restore_snapshot reads out of a snapshot entry.
LayoutOf(entry) ==
    <<TreesOf(entry.data), entry.data.perms, LocksOf(entry.data, entry.from_file),
      IntDict(entry.data.crop_states, entry.from_file), ForcedOf(entry.data)>>

\* C15: the snapshot take_snapshot records, as kept in memory and as the JSON
\* document of its file, reads back as the layout at the time it was taken
\* (trees, permutations, locks with integer keys, crop states, forced
\* aspects); kept snapshots and files are not modified; restore_snapshot
\* leaves the layout of the entry it restores, and a restore right after the
\* take leaves the layout as it is.
C15_SnapshotRoundTrip ==
    [][/\ (last'.op = "take_snapshot" /\ last'.path = "ok")
            => /\ LayoutOf(snapshots'[Len(snapshots')]) = Layout
               /\ LayoutOf([data |-> disk'[last'.aux], from_file |-> TRUE]) = Layout
       /\ \A n \in 1..MaxSnapshots : FileExists(disk[n]) => disk'[n] = disk[n]
       /\ last'.op # "load_images"
            => /\ Len(snapshots') >= Len(snapshots)
               /\ \A i \in 1..Len(snapshots) :
                     LayoutPart(snapshots'[i]) = LayoutPart(snapshots[i])
       /\ (last'.op = "restore_snapshot" /\ last'.path = "ok")
            => /\ Layout' = LayoutOf(snapshots[snapshot_combo + 1])
               /\ (last.op = "take_snapshot" /\ last.path = "ok") => Layout' = Layout
      ]_vars

\* C15 witness: a snapshot read from its file was restored, with a lock in it,
\* over a layout that had none.
C15_Witness ==
    /\ last.op = "restore_snapshot"
    /\ last.path = "ok"
    /\ snapshots[snapshot_combo + 1].from_file
    /\ TotalLocks(pages_locks) > 0

\* C16: a restore that fails on a document lacking a required field leaves the
\* page count, the display settings, the titles, trees, permutations, locks,
\* crop states and forced aspects as they were.
C16_FailedRestoreKeepsState ==
    [][(last'.op = "restore_snapshot" /\ last'.path = "key_error")
       => UNCHANGED <<num_pages_spin, settings, page_titles, pages_roots,
                      pages_perms, pages_locks, image_crop_states,
                      forced_aspect_ratios>>]_vars

\* The images locked on some page.
LockedSet ==
    {pages_locks[p][l] : <<p, l>> \in {pl \in (1..Len(pages_locks)) \X (0..MaxTotalSlots) :
                                          pl[2] \in DOMAIN pages_locks[pl[1]]}}

RECURSIVE Flatten(_)
Flatten(ss) == IF ss = <<>> THEN <<>> ELSE Head(ss) \o Flatten(Tail(ss))

\* The images the fill of lines 1158-1163 put into the chunks, page by page.
FilledImages(w) ==
    Flatten([p \in 1..Len(w.chunks) |->
                SelectSeq(w.chunks[p], LAMBDA i : i \notin LockedSet)])

\* C21: page by page, the non-locked images of the chunks of a request appear
\* in increasing pool position.
C21_FillInPoolOrder ==
    Dispatched =>
        \A a, b \in 1..Len(FilledImages(Request)) :
            a < b => FilledImages(Request)[a] < FilledImages(Request)[b]

\* C22: in a request every image locked on a page is in that page's chunk.
C22_LockedImageInOwnChunk ==
    Dispatched =>
        \A p \in 1..Len(pages_locks) : \A l \in DOMAIN pages_locks[p] :
            pages_locks[p][l] \in Range(Request.chunks[p])

\* C22 witness: a request for two pages, each with a locked image of its own.
C22_Witness ==
    /\ Dispatched
    /\ Len(pages_locks) = 2
    /\ \A p \in 1..2 : pages_locks[p] # EmptyDict
    /\ Cardinality(LockedSet) = 2

\* init_trees has just rebuilt the pages (it did not return early).
Rebuilt ==
    /\ last.op \in {"load_images", "on_page_config_changed", "on_num_pages_changed",
                    "reset_layout"}
    /\ last.path \in {"ok", "fallback"}

\* C23: after init_trees with at least as many images as slots, every page's
\* permutation has as many image indices as the page has leaves and no image
\* index is in the permutations twice.
C23_PermsDistinctWhenEnoughImages ==
    (Rebuilt /\ total_images >= TotalSlots)
    => /\ Len(pages_perms) = Len(pages_roots)
       /\ \A p \in 1..Len(pages_perms) : Len(pages_perms[p]) = pages_roots[p].count
       /\ Cardinality(Range(Flatten(pages_perms))) = TotalSlots
       /\ Range(Flatten(pages_perms)) \subseteq 0..(total_images - 1)

\* C23 witness: init_trees has just built two pages out of enough images.
C23_Witness ==
    /\ Rebuilt
    /\ Len(pages_roots) = 2
    /\ total_images >= TotalSlots

\* n is 2^e for some e.
PowerOfTwo(n) == \E e \in 0..MaxTotalSlots : n = 2 ^ e

C25_TitlesKeptByIndex ==
    [][(/\ last'.op \in {"on_page_config_changed", "on_num_pages_changed", "reset_layout"}
        /\ last'.path = "ok")
       => /\ Len(page_titles') = Len(pages_roots')
          /\ \A i \in 1..Len(page_titles') :
                page_titles'[i] = IF i <= Len(page_titles) THEN page_titles[i]
                                  ELSE [text |-> current_folder, n |-> i]]_vars

\* C25 witness: a reconfiguration has just added a second page next to a page
\* whose title the user had typed.
C25_Witness ==
    /\ Reconfigured(last.op)
    /\ last.path = "ok"
    /\ Len(page_titles) = 2
    /\ page_titles[1] = [text |-> "a", n |-> 0]
    /\ page_titles[2] = [text |-> current_folder, n |-> 2]

\* C26: take_snapshot never changes a snapshot file that exists, and when it
\* writes, it writes the file of the smallest n >= 1 that had no file, whatever
\* files the folder holds; the new entry names that file.
C26_SnapshotNameSmallestFree ==
    [][last'.op = "take_snapshot"
       => /\ \A n \in 1..MaxSnapshots : FileExists(disk[n]) => disk'[n] = disk[n]
          /\ last'.path = "ok"
                => /\ ~FileExists(disk[last'.aux])
                   /\ \A m \in 1..(last'.aux - 1) : FileExists(disk[m])
                   /\ FileLoads(disk'[last'.aux])
                   /\ snapshots'[Len(snapshots')].path = last'.aux
                   /\ Len(snapshots') = Len(snapshots) + 1]_vars

\* C26 witness: take_snapshot has just written file 1 into the gap a deletion
\* left below the file 2 of a snapshot taken earlier.
C26_Witness ==
    /\ last.op = "take_snapshot"
    /\ last.path = "ok"
    /\ last.aux = 1
    /\ \E i \in 1..Len(snapshots) : snapshots[i].path = 2 /\ ~snapshots[i].from_file

\* C27: when the write of take_snapshot or the unlink of delete_snapshot fails,
\* the snapshot list keeps exactly its entries and the pages, locks and
\* permutations are untouched.
C27_IoFailureKeepsState ==
    [][(last'.op \in {"take_snapshot", "delete_snapshot"} /\ last'.path = "io_error")
       => UNCHANGED <<snapshots, snapshot_combo, engine>>]_vars

\* C27 witness: the unlink of delete_snapshot has just failed on a snapshot
\* taken in this session.
C27_Witness ==
    /\ last.op = "delete_snapshot"
    /\ last.path = "io_error"
    /\ snapshots # <<>>
    /\ ~snapshots[snapshot_combo + 1].from_file

\* The progress pairs of an export thread: the total is the thread's page
\* count in every pair, completed grows from pair to pair and stays within
\* the total, and there is one pair per page rendered so far.
ProgressInOrder(run) ==
    /\ \A j \in 1..Len(run.reports) :
          /\ run.reports[j][2] = run.total
          /\ run.reports[j][1] >= 1
          /\ run.reports[j][1] <= run.total
          /\ j > 1 => run.reports[j][1] > run.reports[j - 1][1]
    /\ Len(run.reports) = Cardinality({p \in 1..run.i : run.renders[p]})

\* C28: the total of an export thread is the number of pages at its start, and
\* during its run the (completed, total) pairs it has reported have that
\* total, a strictly increasing completed value that never exceeds it, and
\* are one per rendered page.
C28_ExportProgressMonotone ==
    [][/\ \A k \in 1..Len(export_runs') : ProgressInOrder(export_runs'[k])
       /\ Len(export_runs') > Len(export_runs)
            => /\ export_runs'[Len(export_runs')].total = Len(pages_roots)
               /\ export_runs'[Len(export_runs')].reports = <<>>]_vars

\* C28 witness: an export thread has reported both of its two pages.
C28_Witness ==
    \E k \in 1..Len(export_runs) :
        /\ export_runs[k].total = 2
        /\ Len(export_runs[k].reports) = 2

\* The edits the claim on the immunity of snapshots names.
EditOps ==
    {"handle_drop", "on_title_return_pressed", "apply_title_to_all",
     "toggle_crop_state", "toggle_aspect_lock", "on_page_config_changed"}

\* C29: a snapshot is immune to later edits: take_snapshot records the titles,
\* permutations, locks, crop states and forced aspects of the moment, no edit
\* (drop, title edit, crop or aspect toggle, reconfiguration) changes what a
\* kept snapshot records, and restore_snapshot yields what the snapshot records.
C29_SnapshotImmuneToEdits ==
    [][/\ (last'.op = "take_snapshot" /\ last'.path = "ok")
            => /\ LayoutOf(snapshots'[Len(snapshots')]) = Layout
               /\ TitlesOf(snapshots'[Len(snapshots')].data) = page_titles
       /\ last'.op \in EditOps
            => /\ Len(snapshots') = Len(snapshots)
               /\ \A i \in 1..Len(snapshots) : snapshots'[i].data = snapshots[i].data
       /\ (last'.op = "restore_snapshot" /\ last'.path = "ok")
            => /\ Layout' = LayoutOf(snapshots[snapshot_combo + 1])
               /\ page_titles' = TitlesOf(snapshots[snapshot_combo + 1].data)
      ]_vars

\* C30: in every reachable state the lists of trees, permutations, lock maps
\* and page titles have the same length, one entry per page.
C30_PageListsSameLength ==
    /\ Len(pages_perms) = Len(pages_roots)
    /\ Len(pages_locks) = Len(pages_roots)
    /\ Len(page_titles) = Len(pages_roots)

\* C31: start_optimization keeps the number of pages and the leaf count of
\* every page, whether it rebuilds the trees or not, and leaves the
\* permutations and lock maps as they are, so that lock keys that named
\* leaves of a page before the call name leaves of it after the call.
C31_StartKeepsPageShape ==
    [][last'.op = "start_optimization" =>
          /\ Len(pages_roots') = Len(pages_roots)
          /\ \A i \in 1..Len(pages_roots) :
                 /\ leaf_ids(pages_roots'[i]) = leaf_ids(pages_roots[i])
                 /\ i <= Len(pages_locks) /\ DOMAIN pages_locks[i] \subseteq leaf_ids(pages_roots[i])
                       => DOMAIN pages_locks'[i] \subseteq leaf_ids(pages_roots'[i])
          /\ pages_perms' = pages_perms
          /\ pages_locks' = pages_locks
      ]_vars

\* C31 witness: start_optimization has just rebuilt the trees (no tree carries
\* a locked node) of two pages, one of them with two leaves.
C31_Witness ==
    /\ last.op = "start_optimization"
    /\ last.path # "return_empty"
    /\ ~HasLocks(pages_roots)
    /\ Len(pages_roots) = 2
    /\ \E i \in 1..Len(pages_roots) : pages_roots[i].count = 2

\* C32: a handle_drop on page p leaves the permutation and the lock map of
\* every other page as they were, and the number of pages too; locks are
\* therefore unique per page only.
C32_DropTouchesOnePage ==
    [][\A d \in DropInputs :
          handle_drop(d[1], d[2], d[3]) =>
             /\ Len(pages_perms') = Len(pages_perms)
             /\ Len(pages_locks') = Len(pages_locks)
             /\ \A q \in 1..Len(pages_perms) :
                    q # d[1] + 1 => pages_perms'[q] = pages_perms[q]
             /\ \A q \in 1..Len(pages_locks) :
                    q # d[1] + 1 => pages_locks'[q] = pages_locks[q]
      ]_vars

\* C32 witness: after a drop, one image is locked on two different pages.
C32_Witness ==
    /\ last.op = "handle_drop"
    /\ last.path \in {"swap", "in_place", "overwrite"}
    /\ \E p, q \in 1..Len(pages_locks) :
          /\ p # q
          /\ Range(pages_locks[p]) \cap Range(pages_locks[q]) # {}

\* C33: in every reachable state an image flagged mandatory is in the pool.
C33_MandatoryImpliesPool ==
    \A i \in 1..total_images : mandatory_cb[i] => pool_cb[i]

\* C33 witness: a click on "Pool" or on "Select None" has left an image out of
\* the pool and not mandatory, while another image is mandatory.
C33_Witness ==
    /\ last.op \in {"on_pool_toggled", "select_none_images"}
    /\ \E i, j \in 1..total_images :
          /\ ~pool_cb[i] /\ ~mandatory_cb[i]
          /\ last.op = "on_pool_toggled" => mandatory_cb[j]

\* The numbers of pages that on_page_config_changed with the current text
\* would leave from the current state.
ReconfiguredPageCounts ==
    {Len(r.roots) : r \in InitTreesOutcomes(total_images, page_config_edit,
                                            num_pages_spin, page_titles, pages_roots,
                                            pages_perms, pages_locks, optim_workers,
                                            current_page_idx, optimize_btn, export_btn)}

\* C34: after reset_layout every page's lock map is empty, with a valid slot
\* specification text as with an invalid one, and the number of pages is the
\* one a reconfiguration with the same text would have left.
C34_ResetClearsLocks ==
    [][last'.op = "reset_layout" =>
          /\ \A p \in 1..Len(pages_locks') : pages_locks'[p] = EmptyDict
          /\ Len(pages_roots') \in ReconfiguredPageCounts
      ]_vars

\* C34 witness: reset_layout has run with locks in place and an invalid text,
\* and the pages are still there.
C34_Witness ==
    /\ last.op = "reset_layout"
    /\ last.aux > 0
    /\ InvalidSpecText(page_config_edit)
    /\ pages_roots # <<>>

\* C35: whenever at least one page exists, the page shown is one of the
\* pages: 0 <= current_page_idx < number of pages.
C35_PageIndexInRange ==
    pages_roots # <<>> =>
        /\ 0 <= current_page_idx
        /\ current_page_idx < Len(pages_roots)

\* C36: after load_images on a folder without a supported image file there
\* is no page, the image list is empty and the optimize trigger is disabled.
C36_EmptyFolderLoad ==
    last.op = "load_images" /\ last.path = "no_files" =>
        /\ pages_roots = <<>>
        /\ pages_perms = <<>>
        /\ pages_locks = <<>>
        /\ total_images = 0
        /\ pool_cb = <<>>
        /\ ~optimize_btn

====
